---------------------------- MODULE Spec2Model ----------------------------
(***************************************************************************)
(* Transaction-series derivation and edit propagation of the personal      *)
(* finance client (App component, first App in src/unnamed/part_001, with   *)
(* src/services/financeService.ts and src/components/QuickAdd.tsx).         *)
(*                                                                         *)
(* Conventions                                                             *)
(*   - a string that the code parses or builds (a description) is a        *)
(*     sequence of one-character strings;                                  *)
(*   - a money amount is a whole number of cents;                          *)
(*   - a calendar date "YYYY-MM-DD" is a record [y, m, d];                 *)
(*   - an optional field (groupId?, isRecurring?, isPaid?) holds None      *)
(*     (undefined) or Some(v).                                             *)
(***************************************************************************)
EXTENDS Integers, Sequences, FiniteSets, TLC

(***************************************************************************)
(* Bounds of the model                                                     *)
(***************************************************************************)
MaxInstallments == 3

(***************************************************************************)
(* Optional values                                                         *)
(***************************************************************************)
None == {}

Some(v) == {v}

(***************************************************************************)
(* Descriptions: character sequences, template literals and the two        *)
(* suffix patterns                                                         *)
(***************************************************************************)
DigitChars == <<"0", "1", "2", "3", "4", "5", "6", "7", "8", "9">>

IsDigit(c) == \E k \in 1..10 : DigitChars[k] = c

IsSpace(c) == c = " "

RECURSIVE ToDigits(_)
ToDigits(n) ==
    IF n < 10 THEN <<DigitChars[n + 1]>>
    ELSE ToDigits(n \div 10) \o <<DigitChars[(n % 10) + 1]>>

\* variant: the installment number is written zero-based
InstallmentDescription_ZeroBased(description, i, installments) ==
    description \o <<" ", "(">> \o ToDigits(i - 1) \o <<"/">>
                \o ToDigits(installments) \o <<")">>

\* `${description} (${i}/${installments})`
InstallmentDescription(description, i, installments) ==
    description \o <<" ", "(">> \o ToDigits(i) \o <<"/">>
                \o ToDigits(installments) \o <<")">>

\* number of consecutive digit characters of s that end at position j
RECURSIVE DigitsBack(_, _)
DigitsBack(s, j) ==
    IF j < 1 THEN 0
    ELSE IF IsDigit(s[j]) THEN 1 + DigitsBack(s, j - 1)
    ELSE 0

\* /\s\(\d+\/\d+\)$/ : index of the first character of the match, 0 if none
MatchSplit(s) ==
    LET L == Len(s) IN
    IF L < 6 THEN 0
    ELSE IF s[L] # ")" THEN 0
    ELSE LET d2 == DigitsBack(s, L - 1)
             p  == L - 1 - d2
         IN  IF d2 = 0 \/ p < 4 THEN 0
             ELSE IF s[p] # "/" THEN 0
             ELSE LET d1 == DigitsBack(s, p - 1)
                      q  == p - 1 - d1
                  IN  IF d1 = 0 \/ q < 2 THEN 0
                      ELSE IF s[q] = "(" /\ IsSpace(s[q - 1]) THEN q - 1
                      ELSE 0

ParcelaWord == <<"(", "P", "a", "r", "c", "e", "l", "a", " ">>

\* /\s\(Parcela \d+\)$/ : index of the first character of the match, 0 if none
MatchParcela(s) ==
    LET L == Len(s) IN
    IF L < 12 THEN 0
    ELSE IF s[L] # ")" THEN 0
    ELSE LET d == DigitsBack(s, L - 1)
             q == L - 1 - d - 8
         IN  IF d = 0 \/ q < 2 THEN 0
             ELSE IF SubSeq(s, q, q + 8) = ParcelaWord /\ IsSpace(s[q - 1])
                  THEN q - 1
             ELSE 0

(***************************************************************************)
(* Dates: new Date("YYYY-MM-DD") is midnight UTC, setMonth/getMonth work   *)
(* in local time, toISOString().split('T')[0] is the UTC date again.       *)
(* tzBehind says whether the local zone is behind UTC (the Americas), in   *)
(* which case the local calendar day is the day before the UTC day.        *)
(***************************************************************************)
IsLeap(y) == (y % 4 = 0 /\ y % 100 # 0) \/ y % 400 = 0

DaysInMonth(y, m) ==
    IF m = 2 THEN (IF IsLeap(y) THEN 29 ELSE 28)
    ELSE IF m \in {4, 6, 9, 11} THEN 30
    ELSE 31

PrevDay(dt) ==
    IF dt.d > 1 THEN [dt EXCEPT !.d = dt.d - 1]
    ELSE IF dt.m > 1 THEN [y |-> dt.y, m |-> dt.m - 1, d |-> DaysInMonth(dt.y, dt.m - 1)]
    ELSE [y |-> dt.y - 1, m |-> 12, d |-> 31]

NextDay(dt) ==
    IF dt.d < DaysInMonth(dt.y, dt.m) THEN [dt EXCEPT !.d = dt.d + 1]
    ELSE IF dt.m < 12 THEN [y |-> dt.y, m |-> dt.m + 1, d |-> 1]
    ELSE [y |-> dt.y + 1, m |-> 1, d |-> 1]

\* Date.prototype.setMonth(month) with month >= 0: the month carries into the
\* year, the day of the month is kept and overflows into the next month
SetMonth(dt, month) ==
    LET yy  == dt.y + (month \div 12)
        mm  == (month % 12) + 1
        dim == DaysInMonth(yy, mm)
    IN  IF dt.d <= dim THEN [y |-> yy, m |-> mm, d |-> dt.d]
        ELSE IF mm < 12 THEN [y |-> yy, m |-> mm + 1, d |-> dt.d - dim]
        ELSE [y |-> yy + 1, m |-> 1, d |-> dt.d - dim]

\* const currentDate = new Date(startDate);
\* currentDate.setMonth(startDate.getMonth() + offset);
\* currentDate.toISOString().split('T')[0]
AddMonths(date, offset, behind) ==
    LET local == IF behind THEN PrevDay(date) ELSE date
        moved == SetMonth(local, (local.m - 1) + offset)
    IN  IF behind THEN NextDay(moved) ELSE moved

\* ISO dates compare as their strings do
DateKey(dt) == dt.y * 10000 + dt.m * 100 + dt.d

(***************************************************************************)
(* Amounts: parseFloat((amount / installments).toFixed(2))                 *)
(***************************************************************************)
RECURSIVE Pow2Mod25(_)
Pow2Mod25(k) == IF k = 0 THEN 1 ELSE (2 * Pow2Mod25(k - 1)) % 25

\* floor(log2(cents / 100)) for cents >= 1, searched from below
RECURSIVE Log2Up(_, _)
Log2Up(cents, e) ==
    IF 100 * (2 ^ (e + 1)) > cents THEN e ELSE Log2Up(cents, e + 1)

\* exponent e of the double nearest to cents/100: 2^e <= cents/100 < 2^(e+1)
DoubleExponent(cents) ==
    IF cents >= 100 THEN Log2Up(cents, 0)
    ELSE IF cents >= 50 THEN -1
    ELSE IF cents >= 25 THEN -2
    ELSE IF cents >= 13 THEN -3
    ELSE IF cents >= 7 THEN -4
    ELSE IF cents >= 4 THEN -5
    ELSE IF cents >= 2 THEN -6
    ELSE -7

\* The double nearest to cents/100 lies strictly below cents/100.
\* cents/100 * 2^(52-e) = cents * 2^(50-e) / 25, whose fractional part t/25
\* decides the rounding of the 53-bit significand (2^20 = 1 mod 25).
DoubleBelow(cents) ==
    LET e == DoubleExponent(cents)
        t == ((cents % 25) * Pow2Mod25((50 - e) % 20)) % 25
    IN  t # 0 /\ t <= 12

\* (amount / installments).toFixed(2) in cents.  Off a tie the double error
\* cannot cross the rounding point; on a tie (installments a power of two,
\* so the division is exact) toFixed rounds the exact value of the double,
\* and picks the larger candidate when the double is the tie itself.
InstallmentValue(amount, installments) ==
    IF (2 * amount) % (2 * installments) # installments
    THEN (2 * amount + installments) \div (2 * installments)
    ELSE IF DoubleBelow(amount) THEN amount \div installments
    ELSE (amount \div installments) + 1


(***************************************************************************)
(* State                                                                   *)
(***************************************************************************)
VARIABLES
    failures,          \* backend calls that may still end in an error
    supabase,          \* the backend client is configured (truthy)
    tzBehind,          \* the local time zone is behind UTC
    session,           \* useState<Session | null>: a session is present
    loading,           \* useState(true): the loading screen replaces the UI
    allTransactions,   \* useState<Transaction[]>: the in-memory collection
    transactionToEdit, \* useState<Transaction | null>: None or Some(t)
    showQuickAdd,      \* useState(false): the entry form is open
    db,                \* rows of the remote table "transactions", by id
    nextId,            \* source of fresh identifiers (row ids, generateId)
    ops,               \* handlers suspended at an await, by invocation number
    started,           \* per kind, the number of user handlers invoked so far
    loads,             \* number of loadData runs so far
    entry,             \* arguments of the last handleAddTransaction call
    newTransactions,   \* occurrences that call emitted
    event              \* the handler step taken last

vars == <<failures, supabase, tzBehind, session, loading, allTransactions,
          transactionToEdit, showQuickAdd, db, nextId, ops, started, loads,
          entry, newTransactions, event>>

\* the user handlers that reach the backend
OpKinds == {"add", "edit", "toggle", "delete"}

(***************************************************************************)
(* handleAddTransaction: the occurrences of one entry                      *)
(***************************************************************************)
\* variant: every installment takes the caller's paid flag
InstallmentSeries_AllPaid(e, groupId, behind) ==
    [k \in 1..(IF e.currentInstallment <= e.installments
               THEN e.installments - e.currentInstallment + 1 ELSE 0) |->
        [groupId     |-> groupId,
         amount      |-> InstallmentValue(e.amount, e.installments),
         category    |-> e.category,
         description |-> InstallmentDescription(e.description,
                             e.currentInstallment + (k - 1), e.installments),
         date        |-> AddMonths(e.date, k - 1, behind),
         type        |-> e.type,
         isRecurring |-> Some(FALSE),
         isPaid      |-> Some(e.isPaid)]]

\* Lógica 1: Parcelamento
InstallmentSeries(e, groupId, behind) ==
    [k \in 1..(IF e.currentInstallment <= e.installments
               THEN e.installments - e.currentInstallment + 1 ELSE 0) |->
        LET i           == e.currentInstallment + (k - 1)
            monthOffset == k - 1
        IN  [groupId     |-> groupId,
             amount      |-> InstallmentValue(e.amount, e.installments),
             category    |-> e.category,
             description |-> InstallmentDescription(e.description, i, e.installments),
             date        |-> AddMonths(e.date, monthOffset, behind),
             type        |-> e.type,
             isRecurring |-> Some(FALSE),
             isPaid      |-> Some(IF i = e.currentInstallment THEN e.isPaid ELSE FALSE)]]

RECURRENCE_HORIZON == 12

\* Lógica 2: Recorrência Fixa
RecurringSeries(e, groupId, behind) ==
    [k \in 1..RECURRENCE_HORIZON |->
        LET i == k - 1
        IN  [groupId     |-> groupId,
             amount      |-> e.amount,
             category    |-> e.category,
             description |-> e.description,
             date        |-> AddMonths(e.date, i, behind),
             type        |-> e.type,
             isRecurring |-> Some(TRUE),
             isPaid      |-> Some(IF i = 0 THEN e.isPaid ELSE FALSE)]]

\* variant: the single occurrence takes the group identifier of the entry
SingleTransaction_Grouped(e) ==
    << [groupId     |-> IF e.installments > 1 THEN Some(0) ELSE None,
        amount      |-> e.amount,
        category    |-> e.category,
        description |-> e.description,
        date        |-> e.date,
        type        |-> e.type,
        isRecurring |-> Some(e.isRecurring),
        isPaid      |-> Some(e.isPaid)] >>

\* variant: the single occurrence is always created as paid
SingleTransaction_DefaultPaid(e) ==
    << [groupId     |-> None,
        amount      |-> e.amount,
        category    |-> e.category,
        description |-> e.description,
        date        |-> e.date,
        type        |-> e.type,
        isRecurring |-> Some(e.isRecurring),
        isPaid      |-> Some(TRUE)] >>

\* Lógica 3: Transação Única (the object literal has no groupId key)
SingleTransaction(e) ==
    << [groupId     |-> None,
        amount      |-> e.amount,
        category    |-> e.category,
        description |-> e.description,
        date        |-> e.date,
        type        |-> e.type,
        isRecurring |-> Some(e.isRecurring),
        isPaid      |-> Some(e.isPaid)] >>

\* const groupId = (installments > 1 || isRecurring) ? `grp_${generateId()}` : undefined
GroupIdFor(e, fresh) ==
    IF e.installments > 1 \/ e.isRecurring THEN Some(fresh) ELSE None

InstallmentMode(e) == e.type = "expense" /\ e.installments > 1

\* variant: the recurrence flag is looked at before the installment count
ExpandEntry_RecurringFirst(e, fresh, behind) ==
    IF e.isRecurring THEN RecurringSeries(e, GroupIdFor(e, fresh), behind)
    ELSE IF InstallmentMode(e) THEN InstallmentSeries(e, GroupIdFor(e, fresh), behind)
    ELSE SingleTransaction(e)

\* if (type === 'expense' && installments > 1) ... else if (isRecurring) ... else
ExpandEntry(e, fresh, behind) ==
    IF InstallmentMode(e) THEN InstallmentSeries(e, GroupIdFor(e, fresh), behind)
    ELSE IF e.isRecurring THEN RecurringSeries(e, GroupIdFor(e, fresh), behind)
    ELSE SingleTransaction(e)

(***************************************************************************)
(* Inputs of the series expander                                           *)
(***************************************************************************)
Date(y, m, d) == [y |-> y, m |-> m, d |-> d]

Types == {"income", "expense"}

ExpandAmounts == {1, 201, 300, 1000}

ExpandDescriptions == { <<>>, <<"T", "V">>, <<"T", "V", " ", "(", "1", "/", "2", ")">> }

ExpandDates ==
    { Date(2024, 1, 15), Date(2024, 1, 31), Date(2024, 3, 1),
      Date(2024, 10, 30), Date(2023, 12, 29) }

ExpandEntries ==
    [amount : ExpandAmounts, category : {"Compras"},
     description : ExpandDescriptions, date : ExpandDates, type : Types,
     installments : 1..MaxInstallments, isRecurring : BOOLEAN,
     currentInstallment : 1..MaxInstallments, isPaid : BOOLEAN]

NoEntry == [amount |-> 0]

(***************************************************************************)
(* SpecExpand: the series expander of handleAddTransaction on its own      *)
(***************************************************************************)
InitExpand ==
    /\ failures = 0
    /\ supabase = TRUE
    /\ tzBehind \in BOOLEAN
    /\ session = FALSE
    /\ loading = TRUE
    /\ allTransactions = <<>>
    /\ transactionToEdit = None
    /\ showQuickAdd = FALSE
    /\ db = <<>>
    /\ nextId = 1
    /\ ops = <<>>
    /\ started = [kind \in OpKinds |-> 0]
    /\ loads = 0
    /\ entry \in ExpandEntries
    /\ newTransactions = <<>>
    /\ event = [kind |-> "init"]

Expand ==
    /\ event.kind = "init"
    /\ newTransactions' = ExpandEntry(entry, nextId, tzBehind)
    /\ nextId' = nextId + 1
    /\ event' = [kind |-> "expand"]
    /\ UNCHANGED <<failures, supabase, tzBehind, session, loading, allTransactions,
                   transactionToEdit, showQuickAdd, db, ops, started, loads,
                   entry>>

NextExpand == Expand

SpecExpand == InitExpand /\ [][NextExpand]_vars

(***************************************************************************)
(* financeService: mapping between application objects and table rows.     *)
(* The columns account and user_id play no part in series handling and are *)
(* left out.                                                               *)
(***************************************************************************)
\* const mapTransactionFromDb = (item) => ({...})
mapTransactionFromDb(item) ==
    [id          |-> item.id,
     groupId     |-> item.group_id,
     amount      |-> item.amount,
     category    |-> item.category,
     description |-> item.description,
     date        |-> item.date,
     type        |-> item.type,
     isRecurring |-> item.is_recurring,
     isPaid      |-> IF item.is_paid = None THEN Some(TRUE) ELSE item.is_paid]

AppKey(column) ==
    IF column = "group_id" THEN "groupId"
    ELSE IF column = "is_recurring" THEN "isRecurring"
    ELSE "isPaid"

\* const mapTransactionToDb = (item) => {...}: the renamed keys are added
\* only if not undefined, id and account are dropped, the rest is copied
mapTransactionToDb(item) ==
    LET rest    == DOMAIN item \ {"groupId", "isRecurring", "isPaid", "account", "id"}
        renamed == { c \in {"group_id", "is_recurring", "is_paid"} :
                        /\ AppKey(c) \in DOMAIN item
                        /\ item[AppKey(c)] # None }
    IN  [c \in rest \cup renamed |->
            IF c \in rest THEN item[c] ELSE item[AppKey(c)]]

\* a row of the table: the payload columns, NULL for a column not sent
NewRow(id, payload) ==
    [id           |-> id,
     amount       |-> payload.amount,
     category     |-> payload.category,
     description  |-> payload.description,
     date         |-> payload.date,
     type         |-> payload.type,
     group_id     |-> IF "group_id" \in DOMAIN payload THEN payload.group_id ELSE None,
     is_recurring |-> IF "is_recurring" \in DOMAIN payload THEN payload.is_recurring ELSE None,
     is_paid      |-> IF "is_paid" \in DOMAIN payload THEN payload.is_paid ELSE None]

\* .update(dbUpdates).eq('id', id): the row with the sent columns replaced
UpdatedRow(row, dbUpdates) ==
    [c \in DOMAIN row |-> IF c \in DOMAIN dbUpdates THEN dbUpdates[c] ELSE row[c]]

(***************************************************************************)
(* Collections: Map keyed by id, stable sort by date                       *)
(***************************************************************************)
Range(f) == { f[x] : x \in DOMAIN f }

RECURSIVE SelectSeq2(_, _)
\* Array.prototype.filter with a predicate given as the set of kept indices
SelectSeq2(seq, keep) ==
    IF Len(seq) = 0 THEN <<>>
    ELSE LET front == SelectSeq2(SubSeq(seq, 1, Len(seq) - 1), keep)
         IN  IF Len(seq) \in keep THEN Append(front, seq[Len(seq)]) ELSE front

\* Map.prototype.set: an existing key keeps its position, a new key goes last
MapSet(m, t) ==
    IF \E k \in DOMAIN m : m[k].id = t.id
    THEN [k \in DOMAIN m |-> IF m[k].id = t.id THEN t ELSE m[k]]
    ELSE Append(m, t)

RECURSIVE MapSetAll(_, _)
MapSetAll(m, ts) ==
    IF Len(ts) = 0 THEN m
    ELSE MapSetAll(MapSet(m, Head(ts)), Tail(ts))

\* new Map(prev.map(t => [t.id, t])), as the sequence of its values
NewMap(prev) == MapSetAll(<<>>, prev)

\* insertion of t into a sequence sorted by date, newest first, after every
\* element that is not older: Array.prototype.sort is stable
RECURSIVE InsertByDate(_, _)
InsertByDate(sorted, t) ==
    IF Len(sorted) = 0 THEN <<t>>
    ELSE IF DateKey(Head(sorted).date) >= DateKey(t.date)
         THEN <<Head(sorted)>> \o InsertByDate(Tail(sorted), t)
         ELSE <<t>> \o sorted

RECURSIVE SortByDateDesc(_)
\* .sort((a, b) => new Date(b.date).getTime() - new Date(a.date).getTime())
SortByDateDesc(seq) ==
    IF Len(seq) = 0 THEN <<>>
    ELSE InsertByDate(SortByDateDesc(SubSeq(seq, 1, Len(seq) - 1)), seq[Len(seq)])

(***************************************************************************)
(* Descriptions: stripping, trimming, substring                            *)
(***************************************************************************)
\* .replace(/\s\(\d+\/\d+\)$/, '')
StripSplit(s) ==
    IF MatchSplit(s) > 0 THEN SubSeq(s, 1, MatchSplit(s) - 1) ELSE s

\* .replace(/\s\(Parcela \d+\)$/, '')
StripParcela(s) ==
    IF MatchParcela(s) > 0 THEN SubSeq(s, 1, MatchParcela(s) - 1) ELSE s

RECURSIVE TrimStart(_)
TrimStart(s) ==
    IF Len(s) > 0 /\ IsSpace(Head(s)) THEN TrimStart(Tail(s)) ELSE s

RECURSIVE TrimEnd(_)
TrimEnd(s) ==
    IF Len(s) > 0 /\ IsSpace(s[Len(s)]) THEN TrimEnd(SubSeq(s, 1, Len(s) - 1)) ELSE s

\* String.prototype.trim
Trim(s) == TrimEnd(TrimStart(s))

\* String.prototype.includes
Includes(s, part) ==
    \E k \in 1..(Len(s) - Len(part) + 1) : SubSeq(s, k, k + Len(part) - 1) = part

\* sibling.description.match(...)[0]: the matched suffix, <<>> without match
MatchedSuffix(s) ==
    IF MatchSplit(s) > 0 THEN SubSeq(s, MatchSplit(s), Len(s))
    ELSE IF MatchParcela(s) > 0 THEN SubSeq(s, MatchParcela(s), Len(s))
    ELSE <<>>

(***************************************************************************)
(* QuickAdd: series detection of the edit form                             *)
(***************************************************************************)
AllDigits(s, from, to) ==
    /\ from <= to
    /\ \A k \in from..to : IsDigit(s[k])

\* rawDesc.match(/\((\d+)\/(\d+)\)/), anywhere in the description
ContainsSplit(s) ==
    \E a \in DOMAIN s : \E b \in DOMAIN s : \E c \in DOMAIN s :
        /\ s[a] = "(" /\ s[b] = "/" /\ s[c] = ")"
        /\ AllDigits(s, a + 1, b - 1)
        /\ AllDigits(s, b + 1, c - 1)

\* rawDesc.match(/\(Parcela (\d+)\)/), anywhere in the description
ContainsParcela(s) ==
    \E a \in DOMAIN s : \E c \in DOMAIN s :
        /\ a + 8 <= Len(s)
        /\ SubSeq(s, a, a + 8) = ParcelaWord
        /\ s[c] = ")"
        /\ AllDigits(s, a + 9, c - 1)

\* detectedSeries: the "apply to the whole series" checkbox is rendered
IsSeries(initialData) ==
    \/ initialData.groupId # None
    \/ initialData.isRecurring = Some(TRUE)
    \/ ContainsSplit(initialData.description)
    \/ ContainsParcela(initialData.description)

(***************************************************************************)
(* handleEditTransaction: the update payloads and their reconciliation     *)
(***************************************************************************)
\* { ...a, ...b }
Spread(a, b) ==
    [k \in DOMAIN a \cup DOMAIN b |-> IF k \in DOMAIN b THEN b[k] ELSE a[k]]

\* allTransactions.find(t => t.id === id): None or Some(t)
Find_OrFirst(all, id) ==
    IF \E j \in DOMAIN all : all[j].id = id
    THEN Some(all[CHOOSE k \in DOMAIN all :
                    /\ all[k].id = id
                    /\ \A j \in 1..(k - 1) : all[j].id # id])
    ELSE IF all = <<>> THEN None ELSE Some(all[1])

Find(all, id) ==
    IF \E k \in DOMAIN all : all[k].id = id
    THEN Some(all[CHOOSE k \in DOMAIN all :
                    /\ all[k].id = id
                    /\ \A j \in 1..(k - 1) : all[j].id # id])
    ELSE None

\* variant: the series is looked up by category instead of group identifier
Siblings_ByCategory(all, original) ==
    SelectSeq2(all, { k \in DOMAIN all : all[k].category = original.category })

\* Encontrar irmãs
Siblings(all, original) ==
    IF original.groupId # None
    THEN SelectSeq2(all, { k \in DOMAIN all : all[k].groupId = original.groupId })
    ELSE LET cleanDesc == Trim(StripParcela(StripSplit(original.description)))
         IN  SelectSeq2(all, { k \in DOMAIN all :
                                 /\ all[k].type = original.type
                                 /\ all[k].category = original.category
                                 /\ Includes(all[k].description, cleanDesc) })

\* what undefined turns into when a string is appended to it
Undefined == <<"u", "n", "d", "e", "f", "i", "n", "e", "d">>

\* const siblingUpdates = { ...updates, description, date, isPaid }; a key
\* whose value is undefined is left out of the record (it is not sent to the
\* backend), except isPaid, which is None
SiblingUpdates(sibling, id, updates) ==
    LET suffix         == MatchedSuffix(sibling.description)
        newDescription == IF "description" \in DOMAIN updates
                          THEN Some(updates.description \o suffix)
                          ELSE IF suffix # <<>> THEN Some(Undefined \o suffix)
                          ELSE None
        date           == IF sibling.id # id THEN Some(sibling.date)
                          ELSE IF "date" \in DOMAIN updates THEN Some(updates.date)
                          ELSE None
        isPaid         == IF sibling.id # id THEN sibling.isPaid
                          ELSE IF "isPaid" \in DOMAIN updates THEN updates.isPaid
                          ELSE None
        keys           == (DOMAIN updates \ {"description", "date"})
                              \cup {"isPaid"}
                              \cup (IF newDescription # None THEN {"description"} ELSE {})
                              \cup (IF date # None THEN {"date"} ELSE {})
    IN  [k \in keys |->
            IF k = "description" THEN CHOOSE v \in newDescription : TRUE
            ELSE IF k = "date" THEN CHOOSE v \in date : TRUE
            ELSE IF k = "isPaid" THEN isPaid
            ELSE updates[k]]

\* 1. Identificar transações a serem atualizadas (original present if updateSeries)
TransactionsToUpdate(all, id, updates, updateSeries) ==
    IF ~updateSeries THEN << [id |-> id, data |-> updates] >>
    ELSE LET original == CHOOSE t \in Find(all, id) : TRUE
             siblings == Siblings(all, original)
         IN  [k \in DOMAIN siblings |->
                 [id   |-> siblings[k].id,
                  data |-> SiblingUpdates(siblings[k], id, updates)]]

\* the non-null entries of results, in order
Updated(calls) ==
    LET ok == SelectSeq2(calls, { k \in DOMAIN calls : calls[k].result # None })
    IN  [k \in DOMAIN ok |-> CHOOSE t \in ok[k].result : TRUE]

\* the merge through the Map without the final sort
Reconcile_NoSort(prev, calls) == MapSetAll(NewMap(prev), Updated(calls))

\* setAllTransactions(prev => { newMap ...; return [...].sort(...) }) with results
Reconcile(prev, calls) ==
    SortByDateDesc(MapSetAll(NewMap(prev), Updated(calls)))

\* the same merge without a backend: { ...existing, ...item.data }; when
\* several payloads address one id, Map.set keeps the last of them
ReconcileLocal(prev, transactionsToUpdate) ==
    LET merged == [k \in DOMAIN NewMap(prev) |->
                     LET existing == NewMap(prev)[k]
                         hits     == { j \in DOMAIN transactionsToUpdate :
                                          transactionsToUpdate[j].id = existing.id }
                     IN  IF hits = {} THEN existing
                         ELSE Spread(existing,
                                  transactionsToUpdate[CHOOSE j \in hits :
                                      \A i \in hits : i <= j].data)]
    IN  SortByDateDesc(merged)

(***************************************************************************)
(* Inputs and bounds of the application model                              *)
(***************************************************************************)
\* user handlers that reach the backend in one run
MaxStarts == 3

\* session changes, each of which runs loadData
MaxLoads == 2

\* backend calls that may end in an error in one run
MaxFailures == 1

\* user handlers of one kind that one run invokes
MaxPerKind == 1

\* operations that are awaiting the backend at the same time
MaxInFlight == 2

TV == <<"T", "V">>

Televisao == <<"T", "e", "l", "e", "v", "i", "s", "a", "o">>

Luz == <<"L", "u", "z">>

\* what QuickAdd.handleSubmit hands to onAdd (isPaid is left to its default)
AppEntries ==
    { [amount |-> 300, category |-> "Compras", description |-> TV,
       date |-> Date(2024, 1, 15), type |-> "expense", installments |-> 2,
       isRecurring |-> FALSE, currentInstallment |-> 1, isPaid |-> TRUE] }

\* the payload QuickAdd.handleSubmit hands to onEdit
EditUpdates ==
    { [amount |-> 120, category |-> "Eletronicos", description |-> Televisao,
       date |-> Date(2024, 4, 20), type |-> "expense", isRecurring |-> Some(FALSE)] }

\* rows written before the group_id column existed
LegacyRows ==
    [i \in {1, 2} |->
        [id |-> i, amount |-> 8000, category |-> "Compras",
         description |-> Luz \o <<" ">> \o ParcelaWord \o ToDigits(i) \o <<")">>,
         date |-> Date(2024, i, 10), type |-> "expense",
         group_id |-> None, is_recurring |-> None, is_paid |-> None]]

\* rows of a series that an earlier handleAddTransaction call has stored
SeriesRows ==
    LET series == ExpandEntry(
                      [amount |-> 300, category |-> "Compras", description |-> TV,
                       date |-> Date(2024, 1, 15), type |-> "expense",
                       installments |-> 3, isRecurring |-> FALSE,
                       currentInstallment |-> 1, isPaid |-> TRUE], 9, FALSE)
    IN  [i \in DOMAIN series |-> NewRow(i, mapTransactionToDb(series[i]))]

NoRows == [i \in {} |-> 0]

InitialDbs == {NoRows, LegacyRows, SeriesRows}

NoEvent == [kind |-> "none"]

(***************************************************************************)
(* The application                                                         *)
(***************************************************************************)
Init ==
    /\ failures = MaxFailures
    /\ supabase = TRUE
    /\ tzBehind = FALSE
    /\ session = FALSE
    /\ loading = TRUE
    /\ allTransactions = <<>>
    /\ transactionToEdit = None
    /\ showQuickAdd = FALSE
    /\ db \in InitialDbs
    /\ nextId = 10
    /\ ops = NoRows
    /\ started = [kind \in OpKinds |-> 0]
    /\ loads = 0
    /\ entry = NoEntry
    /\ newTransactions = <<>>
    /\ event = [kind |-> "init"]

\* the main screen is rendered: a session is present and no load is running
UiReady == session /\ ~loading

Started == started["add"] + started["edit"] + started["toggle"] + started["delete"]

MayStart(kind) ==
    /\ Started < MaxStarts
    /\ started[kind] < MaxPerKind
    /\ Cardinality(DOMAIN ops) < MaxInFlight

Suspend(op) ==
    [o \in DOMAIN ops \cup {Started + loads + 1} |->
        IF o \in DOMAIN ops THEN ops[o] ELSE op]

Resume(o) == [x \in DOMAIN ops \ {o} |-> ops[x]]

Settle(o, op) == [x \in DOMAIN ops |-> IF x = o THEN op ELSE ops[x]]

\* rows in the order of .order('date', { ascending: false }); rows of equal
\* date come in any order
RECURSIVE DateOrders(_)
DateOrders(rows) ==
    IF rows = {} THEN { <<>> }
    ELSE UNION { { <<r>> \o rest : rest \in DateOrders(rows \ {r}) } :
                 r \in { r \in rows :
                           \A q \in rows : DateKey(q.date) <= DateKey(r.date) } }

\* onAuthStateChange / getSession deliver a session: the effect runs loadData
SessionChange ==
    /\ supabase
    /\ Cardinality(DOMAIN ops) < MaxInFlight
    /\ loads < MaxLoads
    /\ session' = TRUE
    /\ loading' = TRUE
    /\ loads' = loads + 1
    /\ ops' = Suspend([kind |-> "load", pc |-> "call", fetched |-> <<>>])
    /\ event' = NoEvent
    /\ UNCHANGED <<failures, supabase, tzBehind, allTransactions, transactionToEdit,
                   showQuickAdd, db, nextId, started, entry, newTransactions>>

\* financeService.getTransactions: the rows, or [] on an error
LoadFetch(o, ok) ==
    /\ ops[o].kind = "load" /\ ops[o].pc = "call"
    /\ ok \/ failures > 0
    /\ failures' = IF ok THEN failures ELSE failures - 1
    /\ \E fetched \in (IF ok THEN DateOrders(Range(db)) ELSE { <<>> }) :
          ops' = Settle(o, [ops[o] EXCEPT
                    !.pc = "settled",
                    !.fetched = [k \in DOMAIN fetched |-> mapTransactionFromDb(fetched[k])]])
    /\ event' = NoEvent
    /\ UNCHANGED <<supabase, tzBehind, session, loading, allTransactions,
                   transactionToEdit, showQuickAdd, db, nextId, started, loads,
                   entry, newTransactions>>

\* setAllTransactions(fetchedTransactions); finally setLoading(false)
LoadComplete(o) ==
    /\ ops[o].kind = "load" /\ ops[o].pc = "settled"
    /\ allTransactions' = ops[o].fetched
    /\ loading' = FALSE
    /\ ops' = Resume(o)
    /\ event' = [kind |-> "loadDone"]
    /\ UNCHANGED <<failures, supabase, tzBehind, session, transactionToEdit, showQuickAdd,
                   db, nextId, started, loads, entry, newTransactions>>

\* the "+" buttons: setTransactionToEdit(null); setShowQuickAdd(true)
OpenQuickAdd ==
    /\ UiReady /\ ~showQuickAdd
    /\ MayStart("add")
    /\ transactionToEdit' = None
    /\ showQuickAdd' = TRUE
    /\ event' = NoEvent
    /\ UNCHANGED <<failures, supabase, tzBehind, session, loading, allTransactions, db,
                   nextId, ops, started, loads, entry, newTransactions>>

\* openEditModal(t) for a listed occurrence
OpenEditModal(t) ==
    /\ UiReady /\ ~showQuickAdd
    /\ (MayStart("edit") \/ MayStart("delete"))
    /\ transactionToEdit' = Some(t)
    /\ showQuickAdd' = TRUE
    /\ event' = NoEvent
    /\ UNCHANGED <<failures, supabase, tzBehind, session, loading, allTransactions, db,
                   nextId, ops, started, loads, entry, newTransactions>>

\* with ids: newTransactions.map((t, i) => ({ ...t, id: generateId() + i }))
WithIds(ts, first) ==
    [k \in DOMAIN ts |-> Spread(ts[k], [id |-> first + k - 1])]

\* QuickAdd.handleSubmit without initialData: onAdd(...) then onClose()
SubmitAdd(e) ==
    /\ UiReady /\ showQuickAdd /\ transactionToEdit = None
    /\ MayStart("add")
    /\ started' = [started EXCEPT !["add"] = @ + 1]
    /\ entry' = e
    /\ newTransactions' = ExpandEntry(e, nextId, tzBehind)
    /\ IF supabase
       THEN /\ ops' = Suspend([kind |-> "add", pc |-> "call",
                               rows |-> newTransactions', added |-> None])
            /\ nextId' = nextId + 1
            /\ UNCHANGED allTransactions
       ELSE /\ allTransactions' =
                  WithIds(newTransactions', nextId + 1) \o allTransactions
            /\ nextId' = nextId + 1 + Len(newTransactions')
            /\ UNCHANGED ops
    /\ showQuickAdd' = FALSE
    /\ transactionToEdit' = None
    /\ event' = [kind |-> "addStart"]
    /\ UNCHANGED <<failures, supabase, tzBehind, session, loading, db, loads>>

\* financeService.addTransaction: no user or an insert error give null,
\* otherwise the inserted rows come back with their ids
AddInsert(o, ok) ==
    /\ ops[o].kind = "add" /\ ops[o].pc = "call"
    /\ ok \/ failures > 0
    /\ failures' = IF ok THEN failures ELSE failures - 1
    /\ IF ok
       THEN LET rows == [k \in DOMAIN ops[o].rows |->
                           NewRow(nextId + k - 1, mapTransactionToDb(ops[o].rows[k]))]
            IN  /\ db' = [i \in DOMAIN db \cup { rows[k].id : k \in DOMAIN rows } |->
                            IF i \in DOMAIN db THEN db[i]
                            ELSE rows[i - nextId + 1]]
                /\ nextId' = nextId + Len(rows)
                /\ ops' = Settle(o, [ops[o] EXCEPT
                          !.pc = "settled",
                          !.added = Some([k \in DOMAIN rows |-> mapTransactionFromDb(rows[k])])])
       ELSE /\ ops' = Settle(o, [ops[o] EXCEPT !.pc = "settled"])
            /\ UNCHANGED <<db, nextId>>
    /\ event' = NoEvent
    /\ UNCHANGED <<supabase, tzBehind, session, loading, allTransactions,
                   transactionToEdit, showQuickAdd, started, loads, entry,
                   newTransactions>>

\* if (added) setAllTransactions(prev => [...added, ...prev]) else alert(...)
AddComplete(o) ==
    /\ ops[o].kind = "add" /\ ops[o].pc = "settled"
    /\ IF ops[o].added # None
       THEN allTransactions' = (CHOOSE a \in ops[o].added : TRUE) \o allTransactions
       ELSE UNCHANGED allTransactions
    /\ ops' = Resume(o)
    /\ event' = [kind |-> "addDone", op |-> ops[o], prev |-> allTransactions,
                 alert |-> ops[o].added = None]
    /\ UNCHANGED <<failures, supabase, tzBehind, session, loading, transactionToEdit,
                   showQuickAdd, db, nextId, started, loads, entry,
                   newTransactions>>

\* QuickAdd.handleSubmit with initialData: onEdit(initialData.id, payload,
\* updateSeries) then onClose(); handleEditTransaction up to its await
SubmitEdit(updates, updateSeries) ==
    /\ UiReady /\ showQuickAdd /\ transactionToEdit # None
    /\ MayStart("edit")
    /\ LET initialData == CHOOSE t \in transactionToEdit : TRUE
           id          == initialData.id
           found       == Find(allTransactions, id) # None
       IN  /\ updateSeries => IsSeries(initialData)
           /\ started' = [started EXCEPT !["edit"] = @ + 1]
           /\ IF updateSeries /\ ~found
              THEN \* if (!original) return;
                   /\ event' = [kind |-> "editStart", id |-> id, updates |-> updates,
                                updateSeries |-> updateSeries, found |-> FALSE,
                                before |-> allTransactions,
                                transactionsToUpdate |-> <<>>]
                   /\ UNCHANGED <<allTransactions, ops>>
              ELSE LET transactionsToUpdate ==
                           TransactionsToUpdate(allTransactions, id, updates, updateSeries)
                   IN  /\ event' = [kind |-> "editStart", id |-> id, updates |-> updates,
                                    updateSeries |-> updateSeries, found |-> found,
                                    before |-> allTransactions,
                                    transactionsToUpdate |-> transactionsToUpdate]
                       /\ IF supabase
                          THEN /\ ops' = Suspend(
                                    [kind |-> "edit", id |-> id, updates |-> updates,
                                     updateSeries |-> updateSeries,
                                     before |-> allTransactions,
                                     calls |-> [k \in DOMAIN transactionsToUpdate |->
                                                  [id      |-> transactionsToUpdate[k].id,
                                                   data    |-> transactionsToUpdate[k].data,
                                                   settled |-> FALSE,
                                                   result  |-> None]]])
                               /\ UNCHANGED allTransactions
                          ELSE /\ allTransactions' =
                                     ReconcileLocal(allTransactions, transactionsToUpdate)
                               /\ UNCHANGED ops
    /\ showQuickAdd' = FALSE
    /\ transactionToEdit' = None
    /\ UNCHANGED <<failures, supabase, tzBehind, session, loading, db, nextId, loads,
                   entry, newTransactions>>

\* financeService.updateTransaction(id, updates): an auth or update error, or
\* no row with this id for .single(), give null; otherwise the updated row
UpdateCall(data, id, ok) ==
    IF ok /\ id \in DOMAIN db
    THEN [db     |-> [db EXCEPT ![id] = UpdatedRow(db[id], mapTransactionToDb(data))],
          result |-> Some(mapTransactionFromDb(UpdatedRow(db[id], mapTransactionToDb(data))))]
    ELSE [db |-> db, result |-> None]

\* one of the update calls of Promise.all settles
EditCall(o, k, ok) ==
    /\ ops[o].kind = "edit"
    /\ k \in DOMAIN ops[o].calls
    /\ ~ops[o].calls[k].settled
    /\ ok \/ failures > 0
    /\ failures' = IF ok THEN failures ELSE failures - 1
    /\ LET call == ops[o].calls[k]
           out  == UpdateCall(call.data, call.id, ok)
       IN  /\ db' = out.db
           /\ ops' = Settle(o, [ops[o] EXCEPT
                        !.calls[k].settled = TRUE,
                        !.calls[k].result = out.result])
    /\ event' = NoEvent
    /\ UNCHANGED <<supabase, tzBehind, session, loading, allTransactions,
                   transactionToEdit, showQuickAdd, nextId, started, loads,
                   entry, newTransactions>>

\* the completion without setTransactionToEdit(null)
EditComplete_KeepsSelection(o) ==
    /\ ops[o].kind = "edit"
    /\ \A k \in DOMAIN ops[o].calls : ops[o].calls[k].settled
    /\ IF \E k \in DOMAIN ops[o].calls : ops[o].calls[k].result # None
       THEN allTransactions' = Reconcile(allTransactions, ops[o].calls)
       ELSE UNCHANGED allTransactions
    /\ ops' = Resume(o)
    /\ event' = [kind |-> "editDone", op |-> ops[o], prev |-> allTransactions]
    /\ UNCHANGED <<transactionToEdit, failures, supabase, tzBehind, session,
                   loading, showQuickAdd, db, nextId, started, loads, entry,
                   newTransactions>>

\* after await Promise.all: merge the results, setTransactionToEdit(null)
EditComplete(o) ==
    /\ ops[o].kind = "edit"
    /\ \A k \in DOMAIN ops[o].calls : ops[o].calls[k].settled
    /\ IF \E k \in DOMAIN ops[o].calls : ops[o].calls[k].result # None
       THEN allTransactions' = Reconcile(allTransactions, ops[o].calls)
       ELSE UNCHANGED allTransactions
    /\ transactionToEdit' = None
    /\ ops' = Resume(o)
    /\ event' = [kind |-> "editDone", op |-> ops[o], prev |-> allTransactions]
    /\ UNCHANGED <<failures, supabase, tzBehind, session, loading, showQuickAdd, db,
                   nextId, started, loads, entry, newTransactions>>

\* !t.isPaid
Negate(isPaid) == IF isPaid = Some(TRUE) THEN Some(FALSE) ELSE Some(TRUE)

\* handleToggleStatus(t): the optimistic local update, then the update call
ToggleStatus(t) ==
    /\ UiReady /\ ~showQuickAdd
    /\ MayStart("toggle")
    /\ started' = [started EXCEPT !["toggle"] = @ + 1]
    /\ allTransactions' =
          [k \in DOMAIN allTransactions |->
              IF allTransactions[k].id = t.id
              THEN [allTransactions[k] EXCEPT !.isPaid = Negate(t.isPaid)]
              ELSE allTransactions[k]]
    /\ IF supabase
       THEN ops' = Suspend([kind |-> "toggle", id |-> t.id,
                            data |-> [isPaid |-> Negate(t.isPaid)]])
       ELSE UNCHANGED ops
    /\ event' = [kind |-> "toggleStart", id |-> t.id]
    /\ UNCHANGED <<failures, supabase, tzBehind, session, loading, transactionToEdit,
                   showQuickAdd, db, nextId, loads, entry, newTransactions>>

\* await financeService.updateTransaction(t.id, { isPaid: newStatus }); the
\* result is not looked at
ToggleCall(o, ok) ==
    /\ ops[o].kind = "toggle"
    /\ ok \/ failures > 0
    /\ failures' = IF ok THEN failures ELSE failures - 1
    /\ db' = UpdateCall(ops[o].data, ops[o].id, ok).db
    /\ ops' = Resume(o)
    /\ event' = [kind |-> "toggleDone", op |-> ops[o],
                 failed |-> UpdateCall(ops[o].data, ops[o].id, ok).result = None]
    /\ UNCHANGED <<supabase, tzBehind, session, loading, allTransactions,
                   transactionToEdit, showQuickAdd, nextId, started, loads,
                   entry, newTransactions>>

\* variant: the delete cascades to the records of the target's group
Without_Group(all, id) ==
    SelectSeq2(all, { k \in DOMAIN all :
                        /\ all[k].id # id
                        /\ \A j \in DOMAIN all :
                              (all[j].id = id /\ all[j].groupId # None) =>
                                  all[k].groupId # all[j].groupId })

\* allTransactions.filter(t => t.id !== id)
Without(all, id) == SelectSeq2(all, { k \in DOMAIN all : all[k].id # id })

\* QuickAdd.handleConfirmDelete: onDelete(initialData.id) then onClose()
ConfirmDelete ==
    /\ UiReady /\ showQuickAdd /\ transactionToEdit # None
    /\ MayStart("delete")
    /\ started' = [started EXCEPT !["delete"] = @ + 1]
    /\ LET id == (CHOOSE t \in transactionToEdit : TRUE).id
       IN  /\ IF supabase
              THEN /\ ops' = Suspend([kind |-> "delete", id |-> id,
                                      pc |-> "call", success |-> FALSE])
                   /\ UNCHANGED allTransactions
              ELSE /\ allTransactions' = Without(allTransactions, id)
                   /\ UNCHANGED ops
           /\ event' = [kind |-> "deleteStart", id |-> id]
    /\ showQuickAdd' = FALSE
    /\ transactionToEdit' = None
    /\ UNCHANGED <<failures, supabase, tzBehind, session, loading, db, nextId, loads,
                   entry, newTransactions>>

\* financeService.deleteTransaction(id): false on an error, else true
DeleteCall(o, ok) ==
    /\ ops[o].kind = "delete" /\ ops[o].pc = "call"
    /\ ok \/ failures > 0
    /\ failures' = IF ok THEN failures ELSE failures - 1
    /\ db' = IF ok THEN [i \in DOMAIN db \ {ops[o].id} |-> db[i]] ELSE db
    /\ ops' = Settle(o, [ops[o] EXCEPT !.pc = "settled", !.success = ok])
    /\ event' = NoEvent
    /\ UNCHANGED <<supabase, tzBehind, session, loading, allTransactions,
                   transactionToEdit, showQuickAdd, nextId, started, loads,
                   entry, newTransactions>>

\* the filter applied whatever the call returned
DeleteComplete_Optimistic(o) ==
    /\ ops[o].kind = "delete" /\ ops[o].pc = "settled"
    /\ allTransactions' = Without(allTransactions, ops[o].id)
    /\ ops' = Resume(o)
    /\ event' = [kind |-> "deleteDone", op |-> ops[o], prev |-> allTransactions,
                 alert |-> ~ops[o].success]
    /\ UNCHANGED <<failures, supabase, tzBehind, session, loading, transactionToEdit,
                   showQuickAdd, db, nextId, started, loads, entry,
                   newTransactions>>

\* if (success) setAllTransactions(prev => prev.filter(...)) else alert(...)
DeleteComplete(o) ==
    /\ ops[o].kind = "delete" /\ ops[o].pc = "settled"
    /\ allTransactions' = IF ops[o].success THEN Without(allTransactions, ops[o].id)
                          ELSE allTransactions
    /\ ops' = Resume(o)
    /\ event' = [kind |-> "deleteDone", op |-> ops[o], prev |-> allTransactions,
                 alert |-> ~ops[o].success]
    /\ UNCHANGED <<failures, supabase, tzBehind, session, loading, transactionToEdit,
                   showQuickAdd, db, nextId, started, loads, entry,
                   newTransactions>>

\* the X button of the form: onClose()
CloseQuickAdd ==
    /\ UiReady /\ showQuickAdd
    /\ showQuickAdd' = FALSE
    /\ transactionToEdit' = None
    /\ event' = NoEvent
    /\ UNCHANGED <<failures, supabase, tzBehind, session, loading, allTransactions, db,
                   nextId, ops, started, loads, entry, newTransactions>>

Next ==
    \/ SessionChange
    \/ \E o \in DOMAIN ops : \E ok \in BOOLEAN : LoadFetch(o, ok)
    \/ \E o \in DOMAIN ops : LoadComplete(o)
    \/ OpenQuickAdd
    \/ \E t \in Range(allTransactions) : OpenEditModal(t)
    \/ CloseQuickAdd
    \/ \E e \in AppEntries : SubmitAdd(e)
    \/ \E o \in DOMAIN ops : \E ok \in BOOLEAN : AddInsert(o, ok)
    \/ \E o \in DOMAIN ops : AddComplete(o)
    \/ \E updates \in EditUpdates : \E updateSeries \in BOOLEAN :
          SubmitEdit(updates, updateSeries)
    \/ \E o \in DOMAIN ops :
          \E k \in (IF ops[o].kind = "edit" THEN DOMAIN ops[o].calls ELSE {}) :
              \E ok \in BOOLEAN : EditCall(o, k, ok)
    \/ \E o \in DOMAIN ops : EditComplete(o)
    \/ \E t \in Range(allTransactions) : ToggleStatus(t)
    \/ \E o \in DOMAIN ops : \E ok \in BOOLEAN : ToggleCall(o, ok)
    \/ ConfirmDelete
    \/ \E o \in DOMAIN ops : \E ok \in BOOLEAN : DeleteCall(o, ok)
    \/ \E o \in DOMAIN ops : DeleteComplete(o)

Spec == Init /\ [][Next]_vars

(***************************************************************************)
(* QuickAdd: the edit form, from initialData to the payload of onEdit      *)
(***************************************************************************)
RECURSIVE DigitsFrom(_, _)
\* the number of digit characters of s that start at index j
DigitsFrom(s, j) ==
    IF j > Len(s) THEN 0
    ELSE IF IsDigit(s[j]) THEN 1 + DigitsFrom(s, j + 1)
    ELSE 0

\* /\(\d+\/\d+\)/ matched at index a: the index of its ")", 0 without match
SplitEnd(s, a) ==
    IF a < 1 \/ a > Len(s) THEN 0
    ELSE IF s[a] # "(" THEN 0
    ELSE LET d1 == DigitsFrom(s, a + 1)
             p  == a + 1 + d1
         IN  IF d1 = 0 \/ p > Len(s) THEN 0
             ELSE IF s[p] # "/" THEN 0
             ELSE LET d2 == DigitsFrom(s, p + 1)
                      q  == p + 1 + d2
                  IN  IF d2 = 0 \/ q > Len(s) THEN 0
                      ELSE IF s[q] = ")" THEN q
                      ELSE 0

\* /\(Parcela \d+\)/ matched at index a: the index of its ")", 0 without match
ParcelaEnd(s, a) ==
    IF a < 1 \/ a + 10 > Len(s) THEN 0
    ELSE IF SubSeq(s, a, a + 8) # ParcelaWord THEN 0
    ELSE LET d == DigitsFrom(s, a + 9)
             q == a + 9 + d
         IN  IF d = 0 \/ q > Len(s) THEN 0
             ELSE IF s[q] = ")" THEN q
             ELSE 0

\* the leftmost index of a set of indices, 0 for the empty set
Leftmost(indices) ==
    IF indices = {} THEN 0 ELSE CHOOSE a \in indices : \A b \in indices : a <= b

\* rawDesc.match(/\((\d+)\/(\d+)\)/): index of the match, 0 if none
FirstSplit(s) == Leftmost({ a \in DOMAIN s : SplitEnd(s, a) > 0 })

\* rawDesc.match(/\(Parcela (\d+)\)/): index of the match, 0 if none
FirstParcela(s) == Leftmost({ a \in DOMAIN s : ParcelaEnd(s, a) > 0 })

\* s without its characters from..to
Cut(s, from, to) == SubSeq(s, 1, from - 1) \o SubSeq(s, to + 1, Len(s))

\* rawDesc.replace(/\s\(\d+\/\d+\)/, '') : the first match is removed
RemoveSplit(s) ==
    LET a == Leftmost({ a \in DOMAIN s : IsSpace(s[a]) /\ SplitEnd(s, a + 1) > 0 })
    IN  IF a = 0 THEN s ELSE Cut(s, a, SplitEnd(s, a + 1))

\* rawDesc.replace(/\s\(Parcela \d+\)/, '') : the first match is removed
RemoveParcela(s) ==
    LET a == Leftmost({ a \in DOMAIN s : IsSpace(s[a]) /\ ParcelaEnd(s, a + 1) > 0 })
    IN  IF a = 0 THEN s ELSE Cut(s, a, ParcelaEnd(s, a + 1))

RECURSIVE ParseInt(_)
\* parseInt of a sequence of digit characters
ParseInt(ds) ==
    IF Len(ds) = 0 THEN 0
    ELSE 10 * ParseInt(SubSeq(ds, 1, Len(ds) - 1))
         + (CHOOSE k \in 0..9 : DigitChars[k + 1] = ds[Len(ds)])

\* the state of the form after the effect on initialData has run
FormState(initialData) ==
    LET rawDesc == initialData.description
        a       == FirstSplit(rawDesc)
        d1      == DigitsFrom(rawDesc, a + 1)
        b       == FirstParcela(rawDesc)
        common  == [amount      |-> initialData.amount,
                    category    |-> initialData.category,
                    type        |-> initialData.type,
                    date        |-> initialData.date,
                    isRecurring |-> initialData.isRecurring = Some(TRUE)]
    IN  IF a > 0
        THEN Spread(common,
               [isInstallmentMode  |-> TRUE,
                currentInstallment |-> ParseInt(SubSeq(rawDesc, a + 1, a + d1)),
                installments       |-> ParseInt(SubSeq(rawDesc, a + d1 + 2,
                                                       SplitEnd(rawDesc, a) - 1)),
                description        |-> Trim(RemoveSplit(rawDesc))])
        ELSE IF b > 0
        THEN Spread(common,
               [isInstallmentMode  |-> TRUE,
                currentInstallment |-> ParseInt(SubSeq(rawDesc, b + 9,
                                                       ParcelaEnd(rawDesc, b) - 1)),
                installments       |-> 1,
                description        |-> Trim(RemoveParcela(rawDesc))])
        ELSE Spread(common,
               [isInstallmentMode  |-> FALSE,
                currentInstallment |-> 1,
                installments       |-> 1,
                description        |-> rawDesc])

\* handleSubmit goes on: amount and category are filled in and the current
\* installment does not exceed the total
FormAccepted(form) ==
    /\ form.category # ""
    /\ ~(form.isInstallmentMode /\ ~form.isRecurring
          /\ form.currentInstallment > form.installments)

\* handleSubmit of an edit: finalDescription and the payload of onEdit
FormPayload(form, updateSeries) ==
    LET trimmed == Trim(form.description)
        finalDescription ==
            IF updateSeries \/ form.isRecurring \/ ~form.isInstallmentMode THEN trimmed
            ELSE IF form.installments > 1
            THEN trimmed \o <<" ", "(">> \o ToDigits(form.currentInstallment)
                         \o <<"/">> \o ToDigits(form.installments) \o <<")">>
            ELSE IF form.currentInstallment > 0
            THEN trimmed \o <<" ">> \o ParcelaWord
                         \o ToDigits(form.currentInstallment) \o <<")">>
            ELSE trimmed
    IN  [amount      |-> form.amount,
         category    |-> form.category,
         description |-> finalDescription,
         date        |-> form.date,
         type        |-> form.type,
         isRecurring |-> Some(form.isRecurring)]

\* the form is submitted as the effect has filled it in
SubmitForm(updateSeries) ==
    /\ transactionToEdit # None
    /\ LET form == FormState(CHOOSE t \in transactionToEdit : TRUE)
       IN  /\ FormAccepted(form)
           /\ SubmitEdit(FormPayload(form, updateSeries), updateSeries)

(***************************************************************************)
(* SpecEdit: handleEditTransaction on a loaded collection, with the        *)
(* descriptions and payloads that the handler has to cope with             *)
(***************************************************************************)
\* update calls of one edit that may all end in an error
MaxEditFailures == 3

ALuz == <<"A", " ">> \o Luz

\* legacy rows: the description of the first contains the base description
\* of the second, but not the other way round
LegacyPair ==
    << [id |-> 1, amount |-> 8000, category |-> "Compras",
        description |-> ALuz \o <<" ">> \o ParcelaWord \o <<"2", ")">>,
        date |-> Date(2024, 2, 10), type |-> "expense",
        group_id |-> None, is_recurring |-> None, is_paid |-> None],
       [id |-> 2, amount |-> 8000, category |-> "Compras",
        description |-> Luz \o <<" ">> \o ParcelaWord \o <<"1", ")">>,
        date |-> Date(2024, 1, 10), type |-> "expense",
        group_id |-> None, is_recurring |-> None, is_paid |-> None] >>

\* a series whose base description is followed by two spaces
SpacedPair ==
    << [id |-> 1, amount |-> 150, category |-> "Compras",
        description |-> TV \o <<" ", " ", "(", "2", "/", "2", ")">>,
        date |-> Date(2024, 2, 15), type |-> "expense",
        group_id |-> Some(9), is_recurring |-> Some(FALSE), is_paid |-> Some(FALSE)],
       [id |-> 2, amount |-> 150, category |-> "Compras",
        description |-> TV \o <<" ", " ", "(", "1", "/", "2", ")">>,
        date |-> Date(2024, 1, 15), type |-> "expense",
        group_id |-> Some(9), is_recurring |-> Some(FALSE), is_paid |-> Some(TRUE)] >>

\* the stored series of SeriesRows, newest first
SeriesTriple == << SeriesRows[3], SeriesRows[2], SeriesRows[1] >>

\* a legacy row next to a stored series of the same description, category
\* and flow type
MixedTriple ==
    << [id |-> 3, amount |-> 150, category |-> "Compras",
        description |-> TV \o <<" ", "(", "2", "/", "2", ")">>,
        date |-> Date(2024, 2, 15), type |-> "expense",
        group_id |-> Some(9), is_recurring |-> Some(FALSE), is_paid |-> Some(FALSE)],
       [id |-> 2, amount |-> 150, category |-> "Compras",
        description |-> TV \o <<" ", "(", "1", "/", "2", ")">>,
        date |-> Date(2024, 1, 15), type |-> "expense",
        group_id |-> Some(9), is_recurring |-> Some(FALSE), is_paid |-> Some(TRUE)],
       [id |-> 1, amount |-> 8000, category |-> "Compras",
        description |-> TV \o <<" ">> \o ParcelaWord \o <<"1", ")">>,
        date |-> Date(2023, 12, 10), type |-> "expense",
        group_id |-> None, is_recurring |-> None, is_paid |-> None] >>

EditCollections == { LegacyPair, SpacedPair, SeriesTriple, MixedTriple }

\* payloads of handleEditTransaction: every field of the form, or a subset
EditPayloads ==
    EditUpdates \cup
    { [amount |-> 120, category |-> "Eletronicos"],
      [description |-> Televisao, date |-> Date(2024, 4, 20)] }

InitEdit ==
    /\ failures = MaxEditFailures
    /\ supabase = TRUE
    /\ tzBehind = FALSE
    /\ session = TRUE
    /\ loading = FALSE
    /\ \E rows \in EditCollections :
          /\ allTransactions = [k \in DOMAIN rows |-> mapTransactionFromDb(rows[k])]
          /\ db = [i \in { rows[k].id : k \in DOMAIN rows } |->
                     CHOOSE r \in Range(rows) : r.id = i]
    /\ transactionToEdit = None
    /\ showQuickAdd = FALSE
    /\ nextId = 10
    /\ ops = NoRows
    /\ started = [kind \in OpKinds |-> 0]
    /\ loads = 1
    /\ entry = NoEntry
    /\ newTransactions = <<>>
    /\ event = [kind |-> "init"]

NextEdit ==
    \/ \E t \in Range(allTransactions) : OpenEditModal(t)
    \/ CloseQuickAdd
    \/ \E updates \in EditPayloads : \E updateSeries \in BOOLEAN :
          SubmitEdit(updates, updateSeries)
    \/ \E updateSeries \in BOOLEAN : SubmitForm(updateSeries)
    \/ \E o \in DOMAIN ops :
          \E k \in (IF ops[o].kind = "edit" THEN DOMAIN ops[o].calls ELSE {}) :
              \E ok \in BOOLEAN : EditCall(o, k, ok)
    \/ \E o \in DOMAIN ops : EditComplete(o)

SpecEdit == InitEdit /\ [][NextEdit]_vars

(***************************************************************************)
(* The application with creates of single entries that look like legacy    *)
(* rows (no group identifier, a "(Parcela n)" text typed by the user) and  *)
(* with the shopping list                                                  *)
(***************************************************************************)
LegacyEntries ==
    { [amount |-> 8000, category |-> "Compras",
       description |-> Luz \o <<" ">> \o ParcelaWord \o <<"3", ")">>,
       date |-> Date(2024, 3, 10), type |-> "expense", installments |-> 1,
       isRecurring |-> FALSE, currentInstallment |-> 1, isPaid |-> TRUE] }

\* 'Compras de Mercado (Lista)'
ShoppingDescription ==
    <<"C", "o", "m", "p", "r", "a", "s", " ", "d", "e", " ", "M", "e",
      "r", "c", "a", "d", "o", " ", "(", "L", "i", "s", "t", "a", ")">>

\* totals that the shopping list hands over, in cents
ShoppingTotals == {4550}

\* new Date().toISOString().split('T')[0] on the day of the purchase
ShoppingDates == {Date(2024, 3, 20)}

\* id: '' of the pre-filled record: an identifier that no row has
EmptyId == 0

\* handleFinishShopping(total): the entry form is opened on a pre-filled
\* record whose id is the empty string
FinishShopping(total, today) ==
    /\ UiReady /\ ~showQuickAdd
    /\ (MayStart("add") \/ MayStart("edit"))
    /\ transactionToEdit' =
          Some([id |-> EmptyId, amount |-> total, category |-> "Mercado",
                description |-> ShoppingDescription, type |-> "expense",
                date |-> today, isRecurring |-> Some(FALSE), isPaid |-> Some(TRUE),
                groupId |-> None])
    /\ showQuickAdd' = TRUE
    /\ event' = [kind |-> "finishShopping", total |-> total]
    /\ UNCHANGED <<failures, supabase, tzBehind, session, loading, allTransactions, db,
                   nextId, ops, started, loads, entry, newTransactions>>

InitLegacy ==
    /\ failures = MaxFailures
    /\ supabase = TRUE
    /\ tzBehind = FALSE
    /\ session = FALSE
    /\ loading = TRUE
    /\ allTransactions = <<>>
    /\ transactionToEdit = None
    /\ showQuickAdd = FALSE
    /\ db \in {NoRows, LegacyRows}
    /\ nextId = 10
    /\ ops = NoRows
    /\ started = [kind \in OpKinds |-> 0]
    /\ loads = 0
    /\ entry = NoEntry
    /\ newTransactions = <<>>
    /\ event = [kind |-> "init"]

NextLegacy ==
    \/ SessionChange
    \/ \E o \in DOMAIN ops : \E ok \in BOOLEAN : LoadFetch(o, ok)
    \/ \E o \in DOMAIN ops : LoadComplete(o)
    \/ OpenQuickAdd
    \/ \E t \in Range(allTransactions) : OpenEditModal(t)
    \/ CloseQuickAdd
    \/ \E total \in ShoppingTotals : \E today \in ShoppingDates :
          FinishShopping(total, today)
    \/ \E e \in LegacyEntries : SubmitAdd(e)
    \/ \E o \in DOMAIN ops : \E ok \in BOOLEAN : AddInsert(o, ok)
    \/ \E o \in DOMAIN ops : AddComplete(o)
    \/ \E updates \in EditUpdates : \E updateSeries \in BOOLEAN :
          SubmitEdit(updates, updateSeries)
    \/ \E updateSeries \in BOOLEAN : SubmitForm(updateSeries)
    \/ \E o \in DOMAIN ops :
          \E k \in (IF ops[o].kind = "edit" THEN DOMAIN ops[o].calls ELSE {}) :
              \E ok \in BOOLEAN : EditCall(o, k, ok)
    \/ \E o \in DOMAIN ops : EditComplete(o)

SpecLegacy == InitLegacy /\ [][NextLegacy]_vars

(***************************************************************************)
(* The service's writes against a table that may lack the paid column      *)
(***************************************************************************)
\* result.error of one write attempt, by its reason: "is_paid" when the payload
\* names the paid column and the table has none, "other" for any other error
ErrorOf(payload, backend, attempt) ==
    IF ~backend.paidColumn /\ \E k \in DOMAIN payload : "is_paid" \in DOMAIN payload[k]
    THEN "is_paid"
    ELSE IF attempt \in backend.failing THEN "other" ELSE "none"

\* services/financeService.ts, addTransaction: one insert, null on its error
addTransaction(transactions, backend) ==
    LET payload == [k \in DOMAIN transactions |-> mapTransactionToDb(transactions[k])]
    IN  [sent   |-> <<payload>>,
         result |-> IF ErrorOf(payload, backend, 1) = "none" THEN Some(payload) ELSE None]

\* services/financeService.ts, updateTransaction: one update, null on its error
updateTransaction(updates, backend) ==
    LET dbUpdates == <<mapTransactionToDb(updates)>>
    IN  [sent   |-> <<dbUpdates>>,
         result |-> IF ErrorOf(dbUpdates, backend, 1) = "none" THEN Some(dbUpdates) ELSE None]

\* payload.map(({ is_paid, ...rest }) => rest); delete sanitizedUpdates.is_paid
DropPaid(payload) ==
    [k \in DOMAIN payload |->
        [c \in DOMAIN payload[k] \ {"is_paid"} |-> payload[k][c]]]

\* the earlier service: a second attempt without is_paid when the message of
\* the first error includes 'is_paid'; null when the last attempt has an error
WithFallback(payload, backend) ==
    LET first   == ErrorOf(payload, backend, 1)
        retried == first = "is_paid"
        sent    == IF retried THEN <<payload, DropPaid(payload)>> ELSE <<payload>>
        last    == IF retried THEN ErrorOf(DropPaid(payload), backend, 2) ELSE first
    IN  [sent   |-> sent,
         result |-> IF last = "none" THEN Some(sent[Len(sent)]) ELSE None]

\* the earlier service's insert payload: the six mapped columns of each row
SanitizedRow(t) ==
    [amount |-> t.amount, category |-> t.category, date |-> t.date,
     description |-> t.description, type |-> t.type, is_paid |-> t.isPaid]

\* the earlier service's update payload: the fields that are not undefined
SanitizedUpdates(updates) ==
    LET plain == DOMAIN updates \cap {"amount", "category", "description", "date", "type"}
        paid  == IF "isPaid" \in DOMAIN updates /\ updates.isPaid # None
                 THEN {"is_paid"} ELSE {}
    IN  [c \in plain \cup paid |-> IF c = "is_paid" THEN updates.isPaid ELSE updates[c]]

addTransactionWithFallback(transactions, backend) ==
    WithFallback([k \in DOMAIN transactions |-> SanitizedRow(transactions[k])], backend)

updateTransactionWithFallback(updates, backend) ==
    WithFallback(<<SanitizedUpdates(updates)>>, backend)

\* attempts of one write that the backend may answer with another error
MaxAttempts == 2

\* the table with and without the paid column, and which attempts fail otherwise
Backends == [paidColumn : BOOLEAN, failing : SUBSET (1..MaxAttempts)]

\* what handleAddTransaction hands to addTransaction
WriteInserts ==
    { ExpandEntry(e, 9, FALSE) :
        e \in AppEntries \cup
              { [amount |-> 8000, category |-> "Compras", description |-> Luz,
                 date |-> Date(2024, 1, 10), type |-> "expense", installments |-> 1,
                 isRecurring |-> r, currentInstallment |-> 1, isPaid |-> FALSE] :
                r \in BOOLEAN } }

\* what handleEditTransaction and handleToggleStatus hand to updateTransaction
WriteUpdates ==
    { <<u>> : u \in EditUpdates \cup
                    { [isPaid |-> Some(FALSE)],
                      [amount |-> 120, category |-> "Eletronicos", isPaid |-> None],
                      [amount |-> 120, category |-> "Eletronicos",
                       description |-> Televisao \o <<" ", "(", "2", "/", "3", ")">>,
                       date |-> Date(2024, 2, 15), isPaid |-> Some(TRUE)] } }

WriteRequests ==
    [write : {"insert"}, data : WriteInserts, backend : Backends]
        \cup [write : {"update"}, data : WriteUpdates, backend : Backends]

InitWrite ==
    /\ failures = 0
    /\ supabase = TRUE
    /\ tzBehind = FALSE
    /\ session = TRUE
    /\ loading = FALSE
    /\ allTransactions = <<>>
    /\ transactionToEdit = None
    /\ showQuickAdd = FALSE
    /\ db = <<>>
    /\ nextId = 1
    /\ ops = <<>>
    /\ started = [kind \in OpKinds |-> 0]
    /\ loads = 0
    /\ entry \in WriteRequests
    /\ newTransactions = <<>>
    /\ event = [kind |-> "init"]

\* one call of a write of the service, from the request to what it returns
ServiceWrite(write, service, outcome) ==
    /\ event.kind = "init"
    /\ entry.write = write
    /\ event' = [kind |-> "write", service |-> service,
                 sent |-> outcome.sent, result |-> outcome.result]
    /\ UNCHANGED <<failures, supabase, tzBehind, session, loading, allTransactions,
                   transactionToEdit, showQuickAdd, db, nextId, ops, started, loads,
                   entry, newTransactions>>

AddTransaction ==
    ServiceWrite("insert", "current", addTransaction(entry.data, entry.backend))

UpdateTransaction ==
    ServiceWrite("update", "current", updateTransaction(entry.data[1], entry.backend))

AddTransactionWithFallback ==
    ServiceWrite("insert", "earlier",
                 addTransactionWithFallback(entry.data, entry.backend))

UpdateTransactionWithFallback ==
    ServiceWrite("update", "earlier",
                 updateTransactionWithFallback(entry.data[1], entry.backend))

NextWrite ==
    \/ AddTransaction
    \/ UpdateTransaction
    \/ AddTransactionWithFallback
    \/ UpdateTransactionWithFallback

SpecWrite == InitWrite /\ [][NextWrite]_vars

(***************************************************************************)
(* Properties of the series expander (checked under SpecExpand)            *)
(***************************************************************************)
Expanded == event.kind = "expand"

InstallmentCase ==
    /\ Expanded
    /\ InstallmentMode(entry)
    /\ entry.currentInstallment <= entry.installments

RecurringCase == Expanded /\ ~InstallmentMode(entry) /\ entry.isRecurring

SingleCase == Expanded /\ ~InstallmentMode(entry) /\ ~entry.isRecurring

\* the decimal number a sequence of digit characters denotes
RECURSIVE DigitsValue(_)
DigitsValue(ds) ==
    IF Len(ds) = 0 THEN 0
    ELSE 10 * DigitsValue(SubSeq(ds, 1, Len(ds) - 1))
         + (CHOOSE k \in 0..9 : DigitChars[k + 1] = ds[Len(ds)])

\* text is base followed by " (i/n)"
EndsWithSplit(text, base, i, n) ==
    LET b     == Len(base)
        slash == CHOOSE p \in (b + 3)..Len(text) : text[p] = "/"
    IN  /\ Len(text) >= b + 6
        /\ SubSeq(text, 1, b) = base
        /\ text[b + 1] = " " /\ text[b + 2] = "("
        /\ text[Len(text)] = ")"
        /\ \E p \in (b + 4)..(Len(text) - 2) : text[p] = "/"
        /\ \A p \in ((b + 3)..(Len(text) - 1)) \ {slash} : IsDigit(text[p])
        /\ DigitsValue(SubSeq(text, b + 3, slash - 1)) = i
        /\ DigitsValue(SubSeq(text, slash + 1, Len(text) - 1)) = n

\* C1: an installment entry (expense, n > 1, 1 <= s <= n) emits exactly
\* n - s + 1 occurrences, the k-th described as the input description
\* followed by " (i/n)" with i = s + k, the last i being n, and all carry
\* one and the same group identifier.
C1_InstallmentSeries ==
    InstallmentCase =>
        LET n == entry.installments
            s == entry.currentInstallment
        IN  /\ Len(newTransactions) = n - s + 1
            /\ \A k \in 0..(n - s) :
                  /\ k + 1 \in DOMAIN newTransactions
                  /\ EndsWithSplit(newTransactions[k + 1].description,
                                   entry.description, s + k, n)
                  /\ newTransactions[k + 1].groupId # None
                  /\ newTransactions[k + 1].groupId = newTransactions[1].groupId

C1_Witness ==
    /\ InstallmentCase
    /\ entry.installments = 3
    /\ entry.currentInstallment = 2
    /\ Len(newTransactions) = 2
    /\ newTransactions[2].description = <<"T", "V", " ", "(", "3", "/", "3", ")">>

\* the month that lies k months after the month of dt, as <<year, month>>
MonthAfter(dt, k) ==
    << dt.y + ((dt.m - 1 + k) \div 12), ((dt.m - 1 + k) % 12) + 1 >>

\* C5: a recurring entry emits exactly 12 occurrences with one group
\* identifier, all flagged recurring, with the full amount and the unmodified
\* description, one in each of the 12 consecutive calendar months that start
\* with the month of the input date, whatever the day of the start date.
C5_RecurringTwelveMonths ==
    RecurringCase =>
        /\ Len(newTransactions) = 12
        /\ \A k \in DOMAIN newTransactions :
              /\ newTransactions[k].groupId # None
              /\ newTransactions[k].groupId = newTransactions[1].groupId
              /\ newTransactions[k].isRecurring = Some(TRUE)
              /\ newTransactions[k].amount = entry.amount
              /\ newTransactions[k].description = entry.description
              /\ << newTransactions[k].date.y, newTransactions[k].date.m >>
                     = MonthAfter(entry.date, k - 1)

\* C6: in installment mode the k-th occurrence is dated exactly k calendar
\* months after the start date: same day of the month, month advanced by k
\* with the carry into the year.
C6_InstallmentDates ==
    InstallmentCase =>
        \A k \in DOMAIN newTransactions :
            /\ newTransactions[k].date.d = entry.date.d
            /\ << newTransactions[k].date.y, newTransactions[k].date.m >>
                   = MonthAfter(entry.date, k - 1)

\* C7: in installment and in recurring mode only the first emitted
\* occurrence has the caller's paid flag; every later one is not paid.
C7_OnlyFirstPaid ==
    (InstallmentCase \/ RecurringCase) =>
        \A k \in DOMAIN newTransactions :
            newTransactions[k].isPaid = Some(IF k = 1 THEN entry.isPaid ELSE FALSE)

C7_Witness ==
    /\ (InstallmentCase \/ RecurringCase)
    /\ entry.isPaid
    /\ Len(newTransactions) >= 2
    /\ newTransactions[1].isPaid = Some(TRUE)
    /\ newTransactions[2].isPaid = Some(FALSE)

\* amount / n rounded half-up to whole cents
HalfUp(amount, n) == (2 * amount + n) \div (2 * n)

\* C8: in installment mode every occurrence has the amount share
\* (amount / n) rounded half-up to whole cents; n * share is within n cents
\* of the original amount; the share is never negative.
C8_HalfUpShare ==
    InstallmentCase =>
        \A k \in DOMAIN newTransactions :
            LET share == newTransactions[k].amount
                n     == entry.installments
            IN  /\ share = HalfUp(entry.amount, n)
                /\ n * share - entry.amount \in (0 - n)..n
                /\ share >= 0

\* C9 (as stated): every emitted occurrence carries a group identifier if and
\* only if the entry had installment count > 1 or the recurrence flag set.
C9_GroupIffCountOrRecurring ==
    Expanded =>
        \A k \in DOMAIN newTransactions :
            (newTransactions[k].groupId # None)
                <=> (entry.installments > 1 \/ entry.isRecurring)

\* C9 (amended): every emitted occurrence carries a group identifier if and
\* only if installment mode applies (expense with installment count > 1) or
\* the recurrence flag is set.
C9_GroupIffSeriesMode ==
    Expanded =>
        \A k \in DOMAIN newTransactions :
            (newTransactions[k].groupId # None)
                <=> (InstallmentMode(entry) \/ entry.isRecurring)

C9_Witness ==
    /\ Expanded
    /\ entry.type = "income"
    /\ entry.installments > 1
    /\ ~entry.isRecurring
    /\ Len(newTransactions) = 1
    /\ newTransactions[1].groupId = None

\* C10: when neither installment mode nor recurring mode applies, exactly one
\* occurrence is emitted; its amount, category, description, date, flow type
\* and paid flag are the inputs and it has no group identifier.
C10_SingleVerbatim ==
    SingleCase =>
        /\ Len(newTransactions) = 1
        /\ newTransactions[1].amount = entry.amount
        /\ newTransactions[1].category = entry.category
        /\ newTransactions[1].description = entry.description
        /\ newTransactions[1].date = entry.date
        /\ newTransactions[1].type = entry.type
        /\ newTransactions[1].isPaid = Some(entry.isPaid)
        /\ newTransactions[1].groupId = None

C10_Witness ==
    /\ SingleCase
    /\ entry.type = "expense"
    /\ entry.date = Date(2024, 1, 31)
    /\ ~entry.isPaid
    /\ Len(newTransactions) = 1
    /\ newTransactions[1].isPaid = Some(FALSE)

\* C11: an expense with installment count > 1 is expanded in installment
\* mode even when its recurrence flag is true: every emitted occurrence has
\* the recurrence flag false and the " (i/n)" suffix; occurrences flagged
\* recurring are emitted only when the entry is not such an expense and its
\* recurrence flag is set.
C11_ModePrecedence ==
    Expanded =>
        /\ (entry.type = "expense" /\ entry.installments > 1) =>
              \A k \in DOMAIN newTransactions :
                  /\ newTransactions[k].isRecurring = Some(FALSE)
                  /\ EndsWithSplit(newTransactions[k].description, entry.description,
                                   entry.currentInstallment + k - 1, entry.installments)
        /\ (\E k \in DOMAIN newTransactions :
                newTransactions[k].isRecurring = Some(TRUE)) =>
              /\ ~(entry.type = "expense" /\ entry.installments > 1)
              /\ entry.isRecurring
              /\ Len(newTransactions) = RECURRENCE_HORIZON

C11_Witness ==
    /\ Expanded
    /\ entry.type = "expense" /\ entry.installments = 3 /\ entry.isRecurring
    /\ entry.currentInstallment = 1
    /\ Len(newTransactions) = 3
    /\ newTransactions[3].isRecurring = Some(FALSE)
    /\ newTransactions[3].description = <<"T", "V", " ", "(", "3", "/", "3", ")">>

(***************************************************************************)
(* Properties of edit propagation (checked under Spec)                     *)
(***************************************************************************)
The(option) == CHOOSE v \in option : TRUE

\* handleEditTransaction has just computed its payloads for a series edit
\* whose target is in the collection
SeriesEditStarted ==
    /\ event.kind = "editStart"
    /\ event.updateSeries
    /\ event.found

\* C2: with propagate=true and a target with group identifier g, the payloads
\* are, one for one and in order, the occurrences of the collection whose
\* group identifier is g, and no payload addresses an occurrence whose group
\* identifier differs from g or is absent.
C2_PayloadsCoverGroup ==
    (SeriesEditStarted /\ The(Find(event.before, event.id)).groupId # None) =>
        LET all     == event.before
            g       == The(Find(all, event.id)).groupId
            members == { k \in DOMAIN all : all[k].groupId = g }
            payload == event.transactionsToUpdate
        IN  /\ Len(payload) = Cardinality(members)
            /\ \A k \in members :
                  payload[Cardinality({ j \in members : j <= k })].id = all[k].id
            /\ \A k \in DOMAIN all \ members :
                  \A j \in DOMAIN payload : payload[j].id # all[k].id

C2_Witness ==
    /\ SeriesEditStarted
    /\ The(Find(event.before, event.id)).groupId # None
    /\ Len(event.transactionsToUpdate) = 2
    /\ \E k \in DOMAIN event.before : event.before[k].groupId = None
    /\ \E j \in DOMAIN event.transactionsToUpdate :
          event.transactionsToUpdate[j].id = event.id

\* a series edit has been reconciled and every update call succeeded
SeriesEditDone ==
    /\ event.kind = "editDone"
    /\ event.op.updateSeries
    /\ \A k \in DOMAIN event.op.calls : event.op.calls[k].result # None

\* the " (i/total)" or " (Parcela i)" a description ends with, if any
OwnSuffix(description) ==
    IF MatchSplit(description) > 0
    THEN SubSeq(description, MatchSplit(description), Len(description))
    ELSE IF MatchParcela(description) > 0
    THEN SubSeq(description, MatchParcela(description), Len(description))
    ELSE <<>>

\* C3: after a propagated edit whose update calls all succeeded, every
\* sibling other than the target has the date and paid flag it had before
\* the edit, every sibling has the caller's category, amount and flow type,
\* and its description is the caller's base description followed by the
\* suffix its own description ended with before the edit.
C3_SiblingsKeepDatePaidSuffix ==
    SeriesEditDone =>
        \A k \in DOMAIN event.op.calls :
            LET id     == event.op.calls[k].id
                old    == The(Find(event.op.before, id))
                u      == event.op.updates
            IN  /\ Find(allTransactions, id) # None
                /\ \A j \in DOMAIN allTransactions :
                      allTransactions[j].id = id =>
                          /\ allTransactions[j].category = u.category
                          /\ allTransactions[j].amount = u.amount
                          /\ allTransactions[j].type = u.type
                          /\ allTransactions[j].description
                                 = u.description \o OwnSuffix(old.description)
                          /\ id # event.op.id =>
                                /\ allTransactions[j].date = old.date
                                /\ allTransactions[j].isPaid = old.isPaid

\* the example of the specification: "TV (2/3)" edited with category
\* "Eletronicos" and base description "Televisao"
C3_Witness ==
    /\ SeriesEditDone
    /\ Len(event.op.calls) = 3
    /\ The(Find(event.op.before, event.op.id)).description
           = <<"T", "V", " ", "(", "2", "/", "3", ")">>
    /\ \A i \in 1..3 : \E j \in DOMAIN allTransactions :
          /\ allTransactions[j].description
                 = Televisao \o <<" ", "(">> \o <<DigitChars[i + 1]>> \o <<"/", "3", ")">>
          /\ allTransactions[j].category = "Eletronicos"
          /\ i = 1 => (allTransactions[j].date = Date(2024, 1, 15)
                       /\ allTransactions[j].isPaid = Some(TRUE))
          /\ i = 3 => (allTransactions[j].date = Date(2024, 3, 15)
                       /\ allTransactions[j].isPaid = Some(FALSE))

\* number of elements of seq equal to t
Count(seq, t) == Cardinality({ k \in DOMAIN seq : seq[k] = t })

\* C4: an edit with propagate=false never changes, adds or removes an
\* occurrence of the collection other than the one with the target
\* identifier.
C4_PlainEditTouchesTargetOnly ==
    (event.kind = "editDone" /\ ~event.op.updateSeries) =>
        \A t \in Range(event.prev) \cup Range(allTransactions) :
            t.id # event.op.id =>
                Count(allTransactions, t) = Count(event.prev, t)

\* a description with a trailing " (i/total)" or " (Parcela i)" removed
BaseDescription(description) ==
    SubSeq(description, 1, Len(description) - Len(OwnSuffix(description)))

\* C12: when occurrences A and B both lack a group identifier, agree in flow
\* type and category, and the description of A contains the base description
\* of B, a propagated edit that targets A or B emits a payload for A and a
\* payload for B.
C12_LegacyHeuristicCoversBoth ==
    SeriesEditStarted =>
        \A a, b \in DOMAIN event.before :
            LET A == event.before[a]
                B == event.before[b]
            IN  (/\ A.groupId = None /\ B.groupId = None
                 /\ A.type = B.type /\ A.category = B.category
                 /\ Includes(A.description, BaseDescription(B.description))
                 /\ event.id \in {A.id, B.id})
                => \A id \in {A.id, B.id} :
                       \E j \in DOMAIN event.transactionsToUpdate :
                           event.transactionsToUpdate[j].id = id

\* a propagated edit has started from the form as the effect filled it in,
\* on a target whose description ends with one of the two suffixes
UnchangedSeriesEdit ==
    /\ SeriesEditStarted
    /\ OwnSuffix(The(Find(event.before, event.id)).description) # <<>>
    /\ event.updates = FormPayload(FormState(The(Find(event.before, event.id))), TRUE)

\* C13: for a description that ends with " (i/total)" or " (Parcela i)",
\* the base description that the edit form derives, and the one that the
\* legacy matcher derives, followed by the suffix that the propagator matches
\* on the original description, is the original description again.
C13_StripReattachRoundTrip ==
    UnchangedSeriesEdit =>
        LET original == The(Find(event.before, event.id)).description
            cleanDesc == Trim(StripParcela(StripSplit(original)))
        IN  /\ \A j \in DOMAIN event.transactionsToUpdate :
                  event.transactionsToUpdate[j].id = event.id =>
                      event.transactionsToUpdate[j].data.description = original
            /\ cleanDesc \o MatchedSuffix(original) = original

\* a propagated edit has been reconciled
PropagatedEditDone == event.kind = "editDone" /\ event.op.updateSeries

\* the identifiers whose update call (one of them at least) succeeded
SucceededIds(calls) == { calls[k].id : k \in { k \in DOMAIN calls : calls[k].result # None } }

\* the record that the last successful update call for id returned
LastResult(calls, id) ==
    The(calls[CHOOSE k \in DOMAIN calls :
                /\ calls[k].id = id /\ calls[k].result # None
                /\ \A j \in DOMAIN calls :
                      (calls[j].id = id /\ calls[j].result # None) => j <= k].result)

\* one update call of the edit, at least, has failed
SomeCallFailed(calls) == \E k \in DOMAIN calls : calls[k].result = None

\* C14: after a propagated edit with a failed update call is reconciled, every
\* occurrence whose update succeeded is held as the returned record, every
\* occurrence whose update failed is held as it was, nothing is removed, and
\* when every update call failed the collection is unchanged.
C14_PartialFailureMixedState ==
    (PropagatedEditDone /\ SomeCallFailed(event.op.calls)) =>
        LET calls == event.op.calls
            okIds == SucceededIds(calls)
        IN  /\ \A id \in okIds :
                  \E j \in DOMAIN allTransactions :
                      /\ allTransactions[j] = LastResult(calls, id)
                      /\ \A i \in DOMAIN allTransactions :
                            allTransactions[i].id = id => i = j
            /\ \A t \in Range(event.prev) \cup Range(allTransactions) :
                  t.id \notin okIds => Count(allTransactions, t) = Count(event.prev, t)
            /\ Len(allTransactions) >= Len(event.prev)
            /\ okIds = {} => allTransactions = event.prev

C14_Witness ==
    /\ PropagatedEditDone
    /\ Len(event.op.calls) = 3
    /\ Cardinality(SucceededIds(event.op.calls)) = 2
    /\ \E j \in DOMAIN allTransactions :
          /\ allTransactions[j].id \notin SucceededIds(event.op.calls)
          /\ allTransactions[j].category = "Compras"
    /\ \E j \in DOMAIN allTransactions : allTransactions[j].category = "Eletronicos"

\* the step is an entry of handleEditTransaction with propagate = true whose
\* target identifier is not in the collection
PropagatedEditOfMissingTarget ==
    /\ event'.kind = "editStart"
    /\ event'.updateSeries
    /\ \A j \in DOMAIN allTransactions : allTransactions[j].id # event'.id

\* C15: a propagated edit whose target is not in memory issues no persistence
\* call and leaves the in-memory collection as it was.
C15_MissingTargetNoOp ==
    [][PropagatedEditOfMissingTarget =>
          /\ ops' = ops
          /\ db' = db
          /\ allTransactions' = allTransactions]_vars

C15_Witness ==
    /\ event.kind = "editStart"
    /\ event.updateSeries
    /\ event.before # <<>>
    /\ \A j \in DOMAIN event.before : event.before[j].id # event.id
    /\ allTransactions = event.before

\* C16: when a persistence call for an occurrence has failed, the occurrence is
\* held in memory, once the operation is over, as it was before the operation:
\* for a create, an edit, a delete and a toggle of the paid status.
C16_FailedCallLeavesMemory ==
    /\ (event.kind = "addDone" /\ event.op.added = None) =>
          allTransactions = event.prev
    /\ (event.kind = "deleteDone" /\ ~event.op.success) =>
          allTransactions = event.prev
    /\ event.kind = "editDone" =>
          \A t \in Range(event.prev) \cup Range(allTransactions) :
              t.id \notin SucceededIds(event.op.calls) =>
                  Count(allTransactions, t) = Count(event.prev, t)
    /\ (event.kind = "toggleDone" /\ event.failed) =>
          \A j \in DOMAIN allTransactions :
              allTransactions[j].id = event.op.id =>
                  allTransactions[j].isPaid = Negate(event.op.data.isPaid)

C16_Witness ==
    /\ event.kind = "toggleDone" /\ event.failed
    /\ event.op.id \in DOMAIN db
    /\ db[event.op.id].is_paid = Some(FALSE)
    /\ \E j \in DOMAIN allTransactions :
          /\ allTransactions[j].id = event.op.id
          /\ allTransactions[j].isPaid = Some(TRUE)

\* C17: a create whose batch insert failed and a delete whose call failed
\* leave the collection exactly as it was and raise the failure notice; the
\* collection gains the created occurrences, or loses the deleted one, in the
\* step that follows the successful call and in no earlier step of the
\* operation.
C17_CreateDeleteAfterPersistence ==
    [][/\ event'.kind \in {"addStart", "deleteStart", "none"} =>
             allTransactions' = allTransactions
       /\ event'.kind = "addDone" =>
             IF event'.op.added = None
             THEN allTransactions' = allTransactions /\ event'.alert
             ELSE /\ allTransactions' = The(event'.op.added) \o allTransactions
                  /\ ~event'.alert
       /\ event'.kind = "deleteDone" =>
             IF ~event'.op.success
             THEN allTransactions' = allTransactions /\ event'.alert
             ELSE /\ allTransactions' = Without(allTransactions, event'.op.id)
                  /\ ~event'.alert]_vars

C17_Witness ==
    /\ event.kind = "deleteDone"
    /\ ~event.op.success
    /\ event.alert
    /\ allTransactions = event.prev
    /\ \E j \in DOMAIN allTransactions : allTransactions[j].id = event.op.id

\* newest first: no record is followed by a record of a later date
OrderedByDateDesc(all) ==
    \A i, j \in DOMAIN all : i < j => DateKey(all[i].date) >= DateKey(all[j].date)

\* an edit with a successful update call, at least, has been reconciled
EditReconciled ==
    /\ event.kind = "editDone"
    /\ \E k \in DOMAIN event.op.calls : event.op.calls[k].result # None

\* C18: once an edit with at least one successful update has been reconciled,
\* the whole in-memory collection is ordered by date, newest first.
C18_SortedAfterReconcile == EditReconciled => OrderedByDateDesc(allTransactions)

C18_Witness ==
    /\ EditReconciled
    /\ ~OrderedByDateDesc(MapSetAll(NewMap(event.prev), Updated(event.op.calls)))
    /\ Len(allTransactions) >= 3

\* C19: a write whose first attempt fails with a reason naming the paid column
\* is attempted a second time without the paid field, and the second attempt
\* decides what the operation returns (null when it fails too); no write is
\* attempted more than twice.
C19_MissingPaidColumnRetriedOnce ==
    event.kind = "write" =>
        /\ Len(event.sent) <= 2
        /\ ErrorOf(event.sent[1], entry.backend, 1) = "is_paid" =>
              /\ Len(event.sent) = 2
              /\ event.sent[2] = DropPaid(event.sent[1])
              /\ event.result =
                    IF ErrorOf(event.sent[2], entry.backend, 2) = "none"
                    THEN Some(event.sent[2]) ELSE None

C19_Witness ==
    /\ event.kind = "write"
    /\ event.service = "earlier"
    /\ Len(event.sent) = 2
    /\ event.result = Some(DropPaid(event.sent[1]))
    /\ entry.write = "insert"

\* the fields an update payload may carry
EditableFields == {"amount", "category", "description", "date", "type", "isPaid"}

\* the editable fields that the payload of the edit leaves out
Omitted(updates) == EditableFields \ DOMAIN updates

\* C20: a field that the payload of an edit leaves out keeps, on every
\* occurrence whose update came back, the value it had before the edit, with
\* and without propagation.
C20_OmittedFieldsKept ==
    event.kind = "editDone" =>
        \A k \in DOMAIN event.op.calls :
            (event.op.calls[k].result # None
                /\ Find(event.op.before, event.op.calls[k].id) # None) =>
                \A j \in DOMAIN allTransactions :
                    allTransactions[j].id = event.op.calls[k].id =>
                        \A f \in Omitted(event.op.updates) :
                            allTransactions[j][f] =
                                The(Find(event.op.before, event.op.calls[k].id))[f]

C20_Witness ==
    /\ event.kind = "editDone"
    /\ ~event.op.updateSeries
    /\ Omitted(event.op.updates) = {"description", "date", "type", "isPaid"}
    /\ \E j \in DOMAIN allTransactions :
          /\ allTransactions[j].id = event.op.id
          /\ allTransactions[j].amount = 120
          /\ allTransactions[j].isPaid = Some(FALSE)
          /\ allTransactions[j].description =
                The(Find(event.op.before, event.op.id)).description

\* a propagated edit whose target is in memory and carries no group identifier
LegacyEditStarted ==
    /\ SeriesEditStarted
    /\ The(Find(event.before, event.id)).groupId = None

\* C21: a propagated edit that resolves the siblings through the legacy
\* heuristic emits no update payload for an occurrence that carries a group
\* identifier.
C21_LegacyEditSparesGroupedRows ==
    LegacyEditStarted =>
        \A j \in DOMAIN event.transactionsToUpdate :
            \A k \in DOMAIN event.before :
                event.before[k].id = event.transactionsToUpdate[j].id =>
                    event.before[k].groupId = None

C21_Witness ==
    /\ LegacyEditStarted
    /\ Len(event.transactionsToUpdate) = 3
    /\ \E k \in DOMAIN event.before : event.before[k].groupId # None

\* the total n of a description that ends in " (i/n)", 0 when it does not
SuffixTotal(description) ==
    IF MatchSplit(description) = 0 THEN 0
    ELSE LET slash == CHOOSE p \in MatchSplit(description)..Len(description) :
                          description[p] = "/"
         IN  DigitsValue(SubSeq(description, slash + 1, Len(description) - 1))

\* the installment count a series was created with: the stored series of
\* group 9, or the series of the create of this run
CreatedTotal(groupId) ==
    IF groupId = Some(9) THEN Len(SeriesRows) ELSE entry.installments

\* C22: every in-memory occurrence of an installment series has a description
\* that ends in " (i/total)", total being the installment count its series was
\* created with.
C22_SuffixTotalMatchesSeries ==
    \A k \in DOMAIN allTransactions :
        (allTransactions[k].groupId # None
            /\ allTransactions[k].isRecurring # Some(TRUE)) =>
            SuffixTotal(allTransactions[k].description)
                = CreatedTotal(allTransactions[k].groupId)

C22_Witness ==
    /\ event.kind = "editDone"
    /\ ~event.op.updateSeries
    /\ \E k \in DOMAIN allTransactions :
          /\ allTransactions[k].groupId = Some(9)
          /\ allTransactions[k].description = Televisao
    /\ \E k \in DOMAIN allTransactions :
          /\ allTransactions[k].groupId = Some(9)
          /\ SuffixTotal(allTransactions[k].description) = 3

\* the identifiers of the collection are pairwise distinct
DistinctIds(all) == \A i, j \in DOMAIN all : all[i].id = all[j].id => i = j

\* the paid flag of the record of id in the collection
PaidIn(all, id) == The(Find(all, id)).isPaid

\* a propagated edit has been reconciled, every call of the run succeeded, and
\* the paid flag of sibling id was changed by another operation, which is over,
\* between the entry of the edit and its reconciliation
SiblingToggledMeanwhile(id) ==
    /\ PropagatedEditDone
    /\ failures = MaxFailures
    /\ \A o \in DOMAIN ops : ops[o].kind # "toggle"
    /\ DistinctIds(event.op.before) /\ DistinctIds(event.prev)
    /\ id # event.op.id
    /\ \E k \in DOMAIN event.op.calls : event.op.calls[k].id = id
    /\ Find(event.op.before, id) # None /\ Find(event.prev, id) # None
    /\ PaidIn(event.prev, id) # PaidIn(event.op.before, id)

\* C23: when a toggle of a sibling was started and completed while a
\* propagated edit was in flight, the sibling's paid flag, once both are over,
\* is the toggled one in memory and in the backend.
C23_ConcurrentToggleSurvives ==
    \A id \in DOMAIN db :
        SiblingToggledMeanwhile(id) =>
            /\ PaidIn(allTransactions, id) = PaidIn(event.prev, id)
            /\ mapTransactionFromDb(db[id]).isPaid = PaidIn(event.prev, id)

C23_Witness ==
    \E id \in DOMAIN db :
        /\ SiblingToggledMeanwhile(id)
        /\ PaidIn(event.prev, id) = Some(TRUE)
        /\ PaidIn(allTransactions, id) = Some(FALSE)
        /\ db[id].is_paid = Some(FALSE)

\* C24: in the state that follows the completion of an edit that reached its
\* update calls, the editing selection is empty, whatever the calls returned.
C24_SelectionClearedOnCompletion ==
    event.kind = "editDone" => transactionToEdit = None

C24_Witness ==
    /\ event.kind = "editDone"
    /\ SomeCallFailed(event.op.calls)
    /\ SucceededIds(event.op.calls) # {}
    /\ transactionToEdit = None
    /\ showQuickAdd

\* a delete whose call succeeded has been applied to the collection
DeleteApplied == event.kind = "deleteDone" /\ event.op.success

\* C25: after a successful delete the collection is the one before it without
\* the deleted identifier: every other occurrence, those of the same group
\* included, is there unchanged and in the same relative order.
C25_DeleteRemovesOnlyTarget ==
    DeleteApplied =>
        LET Other(t) == t.id # event.op.id
        IN  /\ allTransactions = SelectSeq(event.prev, Other)
            /\ \A k \in DOMAIN allTransactions : Other(allTransactions[k])

C25_Witness ==
    /\ DeleteApplied
    /\ Find(event.prev, event.op.id) # None
    /\ The(Find(event.prev, event.op.id)).groupId # None
    /\ Len(allTransactions) = 2
    /\ \A k \in DOMAIN allTransactions :
          allTransactions[k].groupId = The(Find(event.prev, event.op.id)).groupId

\* the identifiers held by the collection
Ids(all) == { all[k].id : k \in DOMAIN all }

\* C26: no step brings into the collection an identifier that it did not hold
\* and that the backend does not hold any more: an occurrence that a
\* successful delete has removed does not come back.
C26_DeletedNeverReappears ==
    [][\A id \in Ids(allTransactions') \ Ids(allTransactions) : id \in DOMAIN db']_vars

C26_Witness ==
    /\ event.kind = "editDone"
    /\ \E id \in Ids(allTransactions) \ Ids(event.prev) :
          /\ id \notin DOMAIN db
          /\ id = event.op.id

\* the step completes an edit while another occurrence than the edited one is
\* selected for editing
EditCompletesUnderLaterSelection ==
    /\ event'.kind = "editDone"
    /\ transactionToEdit # None
    /\ The(transactionToEdit).id # event'.op.id

\* C27: the completion of an edit leaves alone a selection that was made, for
\* another occurrence, while its update calls were in flight.
C27_LaterSelectionKept ==
    [][EditCompletesUnderLaterSelection => transactionToEdit' = transactionToEdit]_vars

C27_Witness ==
    \E o \in DOMAIN ops :
        /\ ops[o].kind = "edit"
        /\ \A k \in DOMAIN ops[o].calls : ops[o].calls[k].settled
        /\ showQuickAdd
        /\ transactionToEdit # None
        /\ The(transactionToEdit).id # ops[o].id

\* C28: in every reachable state the identifiers of the in-memory occurrences
\* are pairwise distinct.
C28_IdentifiersDistinct == DistinctIds(allTransactions)

C28_Witness ==
    /\ event.kind = "addDone"
    /\ event.op.added # None
    /\ DistinctIds(event.prev)
    /\ Ids(The(event.op.added)) \subseteq Ids(event.prev)
    /\ Len(allTransactions) = 2 * Cardinality(Ids(allTransactions))

\* the payloads of the edit that address its target
TargetPayloads ==
    { j \in DOMAIN event.transactionsToUpdate :
        event.transactionsToUpdate[j].id = event.id }

\* C29: a propagated edit resolved through the legacy heuristic emits exactly
\* one update payload for its target, and that payload carries the date and
\* the paid flag of the caller's payload.
C29_LegacyTargetOnePayload ==
    LegacyEditStarted =>
        /\ Cardinality(TargetPayloads) = 1
        /\ \A j \in TargetPayloads :
              LET data == event.transactionsToUpdate[j].data
              IN  /\ data.isPaid = (IF "isPaid" \in DOMAIN event.updates
                                    THEN event.updates.isPaid ELSE None)
                  /\ IF "date" \in DOMAIN event.updates
                     THEN data.date = event.updates.date
                     ELSE "date" \notin DOMAIN data

C29_Witness ==
    /\ LegacyEditStarted
    /\ DistinctIds(event.before)
    /\ Len(event.transactionsToUpdate) = 3
    /\ Cardinality(TargetPayloads) = 1
    /\ \A j \in TargetPayloads :
          event.transactionsToUpdate[j].data.date = Date(2024, 4, 20)

\* the entry form is open on the record that handleFinishShopping pre-filled
ShoppingFormOpen ==
    /\ showQuickAdd
    /\ transactionToEdit # None
    /\ The(transactionToEdit).id = EmptyId

\* C30: the submission of the form that the shopping list pre-filled runs the
\* create path with the pre-filled amount.
C30_ShoppingSubmitCreates ==
    [][(ShoppingFormOpen /\ event'.kind \in {"addStart", "editStart"}) =>
          /\ event'.kind = "addStart"
          /\ entry'.amount = The(transactionToEdit).amount]_vars

C30_Witness ==
    /\ event.kind = "editDone"
    /\ event.op.id = EmptyId
    /\ event.op.updates.amount \in ShoppingTotals
    /\ \A k \in DOMAIN event.op.calls : event.op.calls[k].result = None
    /\ allTransactions = event.op.before
    /\ failures = MaxFailures

=============================================================================
